---- MODULE Spec2Model ----
(***************************************************************************)
(* Model of the rust-os kernel core: the cooperative executor              *)
(* (src/task/executor.rs), the PIT clock and its Sleep / Yield futures     *)
(* (src/time.rs), and the RX / TX notification futures the interface pump  *)
(* awaits (src/task/network.rs, src/drivers/net/rtl8139.rs).               *)
(*                                                                         *)
(* One CPU.  The executor thread is a sequential process whose position is *)
(* `pc`; while a task is being polled (`pc = "poll"`) the position inside  *)
(* the task's future is `tpc[cur]`.  Interrupt handlers are installed as   *)
(* interrupt gates, so a handler runs atomically with respect to the       *)
(* thread, and only at a boundary where the interrupt flag `int_enabled`   *)
(* is set.  Every access of the thread to state that a handler also        *)
(* touches is a step of its own, so a handler can fall between any two.    *)
(***************************************************************************)
EXTENDS Integers, Sequences, FiniteSets, TLC

\* ---------------------------------------------------------------- bounds
MaxBoot  == 2      \* tasks main spawns before Executor::run
MaxTasks == 3      \* task ids ever created in one run
MaxQueue == 2      \* run-queue length above which no further NIC / TX notification arrives
MaxClock == 2      \* ticks the model counts; later ticks still fire but are not counted
MaxDur   == 1      \* largest sleep duration, in milliseconds
MaxTx    == 5      \* frames the stack transmits in one run
MaxSlots == 3      \* (bus, slot) positions of the PCI bus
MaxScans == 3      \* calls of scan_devices in one run
MaxPages == 4      \* pages of the heap
MaxFrames == 5     \* physical frames the heap pages are mapped to
MaxSockets == 4    \* slots of the socket set
MaxIfaces == 2     \* network interfaces add_interface can register
RxRoom == 1        \* packets a socket's rx buffer holds
MaxRx == 7         \* frames the NIC writes into the receive ring
MaxSpins == 2      \* reads of the command register that find RST still set
MaxEnables == 3    \* calls of enable_mastering

\* ---------------------------------------------------- program constants
TaskQueueCap == 100    \* ArrayQueue::new(100), the run queue
IncomingCap  == 100    \* ArrayQueue::new(100), the incoming queue
\* time() = CLOCK * PIT_INTERVAL, PIT_INTERVAL = 1193 / (3579545 / 3) s.
\* Times are integers in units of 1 / 3579545000 s, so that one tick is
\* 3579000 units and one millisecond is 3579545 units: the arithmetic of
\* time.rs is then exact (f64 rounding is not modelled).
TickUnits == 3579000
MsUnits   == 3579545

NoTask  == 0

TxBuffers    == 4      \* Rtl8139.tx_buffers: [PhysBuf; 4]
MinFrame     == 60     \* transmit_packet: len.max(60)
TxSizeMask   == 8192   \* transmit_packet: 0x1FFF & len, as a modulus
NoBuffer     == 4      \* no transmit buffer handed out, no status port written
PageSize     == 4096   \* Size4KiB
RxBufferLen  == 9708   \* rx_buffer: PhysBuf::new(9708)
TxBufferLen  == 4096   \* tx_buffers: PhysBuf::new(4096)
RxRingLen    == 8192   \* the ring of RX_BUFFER_LEN, the length rx_config selects
RxBufferPadding == 16  \* RX_BUFFER_PADDING
CaprReset    == 65520  \* CAPR after the reset: 0xFFF0, so that CAPR + 16 is 0 mod 2^16
U16          == 65536  \* 1 << 16
MaxFrameLen  == 1518   \* the longest frame, CRC included
ROK          == 1      \* ROK: u16 = 1 << 0, Receive OK
IsrTok       == 4      \* the Transmit OK bit of the interrupt status: 0x4
PicOffset    == 32     \* the vector of IRQ line 0
NicEoiVector == 43     \* notify_end_of_interrupt(43)
ImrMask      == 5      \* imr.write(0x5)
PingCount    == 4      \* ping: let count = 4
ScancodeCap  == 100    \* SCANCODE_QUEUE: ArrayQueue::new(100)
KeyStreamCap == 100    \* KeyStreamInner.queue: ArrayQueue::new(100)
NoHandle     == 0      \* Option<TcpStream>::None: no socket
NoPort       == 0      \* a listen endpoint with port 0, which smoltcp refuses
IcmpHandle   == 1      \* the handle of the IcmpSocket of the receiving task
TcpHandle    == 2      \* the handle of the TcpStream of the sending or receiving task

VARIABLES
    tasks,           \* Executor.tasks: the ids in the task map
    task_queue,      \* Executor.task_queue: the run queue of task ids
    waker_cache,     \* Executor.waker_cache: the ids with a cached waker
    incoming_tasks,  \* Executor.incoming_tasks: ids of spawned, not yet admitted tasks
    pc,              \* position of the executor thread
    cur,             \* the task being polled, NoTask outside a poll
    int_enabled,     \* the CPU interrupt flag
    next_id,         \* the next TaskId Task::new hands out
    kind,            \* the future each task runs
    tpc,             \* position of each task inside its future
    held,            \* tasks whose waker an outside party holds a clone of
    CLOCK,           \* the tick counter
    SLEEPERS,        \* the sleep list: the Sleep objects, named by their task
    wake_at,         \* SleepInner.wake_at of each task's Sleep
    sleep_waker,     \* SleepInner.waker of each task's Sleep: TRUE when a waker is registered
    sleep_time,      \* the local `time` read by Sleep::poll
    sleep_arg,       \* the tick and the duration of each task's sleep(d) call
    tx_ready,        \* WaitForTxInner.ready
    tx_waker,        \* WaitForTxInner.waker: the registered task or NoTask
    rx_ready,        \* Rtl8139RecvInner.ready
    rx_waker,        \* Rtl8139RecvInner.waker: the registered task or NoTask
    saved_if,        \* the flag value without_interrupts restores
    current_tx_buffer, \* Rtl8139.current_tx_buffer
    tx_token,        \* the EtherTxToken being consumed and the last port write
    CAPR,            \* the NIC's register 0x38
    CBA,             \* the NIC's register 0x3A: the offset it writes the next frame at
    rx_log,          \* the frames the NIC has written: header offset and length
    rx_offset,       \* Rtl8139.rx_offset
    rx_last,         \* what the last receive_packet read, computed and returned
    rx_delivered,    \* the frames receive_packet has returned, in order
    irq_num,         \* the NIC's interrupt line: byte 0 of its PCI config dword 0xF
    irq_last,        \* the last run of rtl8139_handler, where a specification observes it
    nic_init,        \* Rtl8139::new and init: the next step, and what the NIC has been told
    PCI_DEVICES,     \* the PCI registry: initialized or not, and its Vec
    pci_bus,         \* the hardware: the device answering at each position
    pci_scan,        \* the position of scan_devices, its calls and its bus reads
    pci_cfg,         \* configuration dword 1 of the NIC and the calls of enable_mastering
    heap_map,        \* the page table: the frame each heap page is mapped to
    phys_buf,        \* the Vec PhysBuf::from is looking at, or the PhysBuf returned
    SOCKETS,         \* the SocketSet: the socket in each slot, by handle
    sock_alive,      \* the handles of the wrappers that have not been dropped
    listener,        \* the TcpListener: its socket, its endpoint, whether it panicked
    accepted,        \* the handles of the streams accept has returned, in order
    NET_IFACES,      \* the number of interfaces registered, named 1..NET_IFACES
    pump_ifaces,     \* the pump's local `ifaces`: the interfaces it holds
    poll_log,        \* the pump's local `changed`, and the interfaces whose poll ran
    wire,            \* what each interface's poll will find to do
    sock_rx,         \* the packets buffered in each socket's rx buffer
    RECEIVING_SOCKETS, \* the waiters the pump will notify, named by their task
    sock_waiter,     \* SocketRecvWaiterInner of each task's wait: ready, waker
    ping,            \* the shell's ping: the echo requests sent and the replies printed
    SCANCODE_QUEUE,  \* the scancodes add_scancode has queued, each named by its number
    kb_waker,        \* WAKER of keyboard.rs: the registered task or NoTask
    KEY_STREAMS,     \* the key streams: registered or not, and the keys in each queue
    kb               \* the keyboard: bytes sent, warnings, scancodes yielded, forward_keys' local

\* the kernel core: executor, clock, sleep list and the pump's two futures
coreVars == <<tasks, task_queue, waker_cache, incoming_tasks, pc, cur, int_enabled, next_id,
              kind, tpc, held, CLOCK, SLEEPERS, wake_at, sleep_waker, sleep_time,
              sleep_arg, tx_ready, tx_waker, rx_ready, rx_waker, saved_if>>

\* the RTL8139 transmit ring
rxVars == <<CAPR, CBA, rx_log, rx_offset, rx_last, rx_delivered>>

\* the NIC's interrupt line and the observed run of its handler
irqVars == <<irq_num, irq_last, nic_init>>

ringVars == <<current_tx_buffer, tx_token, rxVars, irqVars>>

\* the PCI registry and bus
pciVars == <<PCI_DEVICES, pci_bus, pci_scan, pci_cfg>>

\* the heap mapping and the PhysBuf under construction
memVars == <<heap_map, phys_buf>>

\* the socket set, the wrappers alive and the TCP listener
sockVars == <<SOCKETS, sock_alive, listener, accepted>>

\* the interfaces, the pump's locals and the socket waiters
waitVars == <<NET_IFACES, pump_ifaces, poll_log, wire, sock_rx, RECEIVING_SOCKETS,
              sock_waiter>>

\* the state outside the kernel core
\* the shell's commands and the keyboard
kbVars == <<SCANCODE_QUEUE, kb_waker, KEY_STREAMS, kb>>

shellVars == <<ping, kbVars>>

extVars == <<ringVars, pciVars, memVars, shellVars, sockVars, waitVars>>

\* what a step of one subsystem leaves alone
RingFrame == UNCHANGED <<coreVars, pciVars, memVars, shellVars, sockVars, waitVars>>
PciFrame  == UNCHANGED <<coreVars, ringVars, memVars, shellVars, sockVars, waitVars>>
MemFrame  == UNCHANGED <<coreVars, ringVars, pciVars, sockVars, waitVars, shellVars>>
SockFrame == UNCHANGED <<coreVars, ringVars, pciVars, memVars, shellVars, waitVars>>

vars == <<coreVars, extVars>>

execVars  == <<tasks, task_queue, waker_cache, incoming_tasks, pc, cur>>
timeVars  == <<CLOCK, SLEEPERS, wake_at, sleep_waker, sleep_time, sleep_arg>>
netVars   == <<tx_ready, tx_waker, rx_ready, rx_waker>>

Range(s) == {s[i] : i \in 1..Len(s)}

\* ------------------------------------------------------------- time.rs
\* time(), in model units
Time(clock) == clock * TickUnits

\* time_ms() = (time() * 1000.0) as i64: truncation of a non-negative value
TimeMs(clock) == (clock * TickUnits) \div MsUnits

\* Duration::from_millis(d).as_secs_f64(), in model units
DurUnits(d) == d * MsUnits

\* --------------------------------------------------------- executor.rs
\* TaskWaker::wake_task: a full queue panics
WakeTaskFull(q) == Len(q) >= TaskQueueCap

\* a run queue that hands out the newest id first
WakeTaskFront(q, id) == <<id>> \o q

\* TaskWaker::wake_task: task_queue.push(task_id), at the tail
WakeTask(q, id) == Append(q, id)

\* the interrupted hlt ends: sleep_if_idle returns into the loop of run()
AfterInterrupt(p) == IF p = "hlt" THEN "add_incoming" ELSE p

\* no vector: receive_packet returned None
NoVec == [id |-> 0, lo |-> 0, hi |-> 0]

\* the handler's runs are not observed
NoIrq == [seen |-> FALSE, status |-> 0, ack |-> 0, vector |-> 0, eoi |-> 0]

\* the handler's runs are observed, and there was none
IrqBoot == [NoIrq EXCEPT !.seen = TRUE]

\* Rtl8139::init: idt[32 + irq_num as usize].set_handler_fn(rtl8139_handler)
IdtVector == PicOffset + irq_num

\* Rtl8139::new: current_tx_buffer: AtomicUsize::new(3); no token yet;
\* rx_buffer: PhysBuf::new(9708), all zero; rx_offset: 0; the reset leaves
\* the NIC's ring empty
Rtl8139Fields ==
    /\ current_tx_buffer = TxBuffers - 1
    /\ tx_token = [phase |-> "idle", buf |-> NoBuffer, port |-> NoBuffer,
                   len |-> 0, size |-> 0, count |-> 0]
    /\ CAPR = CaprReset
    /\ CBA = 0
    /\ rx_log = <<>>
    /\ rx_offset = 0
    /\ rx_last = [branch |-> "none", capr |-> CaprReset, offset |-> 0, n |-> 0,
                  minuend |-> RxBufferPadding, ret |-> NoVec]
    /\ rx_delivered = <<>>

\* an order of bring-up that enables the NIC before its handler is installed
InitOrderEnableEarly ==
    <<"new", "config1", "reset", "spin", "rbstart", "tsad", "tsad", "tsad", "tsad",
      "imr", "enable", "handler", "rcr">>

\* Rtl8139::new and Rtl8139::init, statement by statement
InitOrder ==
    <<"new", "config1", "reset", "spin", "rbstart", "tsad", "tsad", "tsad", "tsad",
      "imr", "handler", "rcr", "enable">>

\* the NIC as the power-on leaves it, before Rtl8139::new
NicPowerOn ==
    [at |-> 1, io_base |-> FALSE, rst |-> FALSE, rst_clear |-> FALSE, spins |-> 0,
     rbstart |-> FALSE, tsad |-> 0, imr |-> 0, handler |-> FALSE, rcr |-> FALSE,
     enabled |-> FALSE]

\* the NIC after Rtl8139::new has returned
NicUp ==
    [at |-> Len(InitOrder) + 1, io_base |-> TRUE, rst |-> FALSE, rst_clear |-> TRUE,
     spins |-> 0, rbstart |-> TRUE, tsad |-> TxBuffers, imr |-> ImrMask,
     handler |-> TRUE, rcr |-> TRUE, enabled |-> TRUE]

\* Rtl8139::new on a machine that gives the NIC the line of vector 43
Rtl8139New ==
    /\ Rtl8139Fields
    /\ irq_num = NicEoiVector - PicOffset
    /\ irq_last = NoIrq
    /\ nic_init = NicUp

\* the (bus, slot) positions scan_devices visits, in its order
PciSlots == 1..MaxSlots

\* what answers at a position: nothing, the RTL8139, another device, or a
\* device that its vendor gave the device ID 0xFFFF
PciAnswers == {"none", "rtl8139", "other", "idffff"}

\* check_device: the word that stands for "nothing here"
NoDeviceWord == 65535

\* the vendor and device ID kernel_main and Rtl8139::init look up
RealtekVendor == 4332
Rtl8139Id == 33081

\* the configuration dword 0 read at a position: the device ID in the high
\* word and the vendor ID in the low word; all ones where nothing answers.
\* A Register's u32 is kept as its two 16-bit halves.
ConfigDword0(answer) ==
    CASE answer = "none" -> [hi |-> NoDeviceWord, lo |-> NoDeviceWord]
      [] answer = "rtl8139" -> [hi |-> Rtl8139Id, lo |-> RealtekVendor]
      [] answer = "other" -> [hi |-> 4110, lo |-> 32902]
      [] answer = "idffff" -> [hi |-> NoDeviceWord, lo |-> RealtekVendor]

\* Register::word(which): (self.inner >> (16 * which)) as u16
RegisterWord(inner, which) == IF which = 0 THEN inner.lo % U16 ELSE inner.hi % U16

\* PciDevice::new: (id, vendor) = (data.word(1), data.word(0)) of dword 0
PciDeviceNew(bus, slot) ==
    LET data == ConfigDword0(bus[slot])
    IN  [slot |-> slot, id |-> RegisterWord(data, 1), vendor |-> RegisterWord(data, 0)]

\* check_device: let vendor = pci_read(bus, slot, 0, 0).word(1); None when
\* it is 0xFFFF, else Some(PciDevice::new(bus, slot, 0))
CheckDevice(bus, slot) ==
    LET vendor == RegisterWord(ConfigDword0(bus[slot]), 1)
    IN  IF vendor = NoDeviceWord THEN <<>> ELSE <<PciDeviceNew(bus, slot)>>

\* the registry scan_devices builds on a bus, position by position
RECURSIVE Scanned(_, _)
Scanned(bus, n) ==
    IF n = 0 THEN <<>> ELSE Scanned(bus, n - 1) \o CheckDevice(bus, n)

\* x | bit and x & bit on the 16-bit halves of a Register, bit by bit
RECURSIVE BitOr(_, _)
BitOr(x, y) ==
    IF x = 0 THEN y
    ELSE IF y = 0 THEN x
    ELSE 2 * BitOr(x \div 2, y \div 2) + (IF x % 2 = 1 \/ y % 2 = 1 THEN 1 ELSE 0)

RECURSIVE BitAnd(_, _)
BitAnd(x, y) ==
    IF x = 0 \/ y = 0 THEN 0
    ELSE 2 * BitAnd(x \div 2, y \div 2) + (IF x % 2 = 1 /\ y % 2 = 1 THEN 1 ELSE 0)

\* enable_mastering: the bus master bit of the command register
BusMasterBit == 4

\* the bits of the status register (the high word of dword 1) that the
\* hardware clears when a one is written to them
StatusRw1c == 63744

\* a command that is replaced instead of or-ed
MasterCommandOnly(command) == [hi |-> 0, lo |-> BusMasterBit]

\* enable_mastering: command |= 0x4, on the u32 kept as its halves
MasterCommand(command) == [hi |-> command.hi, lo |-> BitOr(command.lo, BusMasterBit)]

\* pci_write to dword 1: the command half is stored; the status half is
\* stored by a plain register and has its written ones cleared by a
\* register with write-one-to-clear status bits
CfgWrite(cfg, data) ==
    [hi |-> IF cfg.rw1c THEN cfg.hi - BitAnd(BitAnd(cfg.hi, data.hi), StatusRw1c)
            ELSE data.hi,
     lo |-> data.lo]

\* dword 1 after kernel_main: enable_mastering ran in kernel_main and in
\* io_base
CfgAfterBoot ==
    [hi |-> 640, lo |-> 7, rw1c |-> TRUE, calls |-> 2,
     read |-> [hi |-> 640, lo |-> 7], written |-> [hi |-> 640, lo |-> 7],
     before |-> [hi |-> 640, lo |-> 7]]

\* kernel_main has scanned a bus that holds the RTL8139 at its first position
PciBoot ==
    /\ pci_bus = [slot \in PciSlots |-> IF slot = 1 THEN "rtl8139" ELSE "none"]
    /\ PCI_DEVICES = [init |-> TRUE, devs |-> Scanned(pci_bus, MaxSlots)]
    /\ pci_scan = [pos |-> 0, calls |-> 1, reads |-> MaxSlots]
    /\ pci_cfg = CfgAfterBoot

\* the heap pages
HeapPages == 0..(MaxPages - 1)

\* phys_addr(ptr): memory::virt_to_phys of a heap address, given as its
\* offset from HEAP_START: the frame of its page plus the offset in the page
PhysAddr(map, v) == (map[v \div PageSize] * PageSize) + (v % PageSize)

\* the heap mapped onto consecutive frames, holding the rx buffer of the NIC
MemBoot ==
    /\ heap_map = [page \in HeapPages |-> page]
    /\ phys_buf = [state |-> "returned", start |-> 0, len |-> RxBufferLen, tries |-> 0,
                   live |-> {}]

\* the SocketHandles: the indices of the slots of the socket set
Handles == 1..MaxSockets

\* an empty slot of the socket set
FreeSlot == [type |-> "free", state |-> "closed", port |-> NoPort]

\* SOCKETS initialized empty, TcpListener::new not yet listening
SockBoot ==
    /\ SOCKETS = [h \in Handles |-> FreeSlot]
    /\ sock_alive = {}
    /\ listener = [sock |-> NoHandle, endpoint |-> NoPort, panicked |-> FALSE]
    /\ accepted = <<>>

\* n interfaces are registered; nothing waits, nothing is buffered
IfacesBoot(n) ==
    /\ NET_IFACES = n
    /\ pump_ifaces = 0
    /\ poll_log = [polled |-> {}, changed |-> FALSE]
    /\ wire = [i \in 1..MaxIfaces |-> "none"]
    /\ sock_rx = [h \in Handles |-> 0]
    /\ RECEIVING_SOCKETS = <<>>
    /\ sock_waiter = [t \in 1..MaxTasks |-> [ready |-> FALSE, waker |-> FALSE]]

\* kernel_main has registered the RTL8139
WaitBoot == IfacesBoot(1)

\* the state outside the kernel core when the executor starts
\* the key streams the model names
StreamIds == {1, 2}

\* initialize_streams, and the KeyStreams of the set regs registered: the
\* scancode queue is empty, no waker is registered, nothing was typed
\* the bytes the keyboard sends in one run: enough to overfill a queue
TypedCap == ScancodeCap + 4

KeyboardBoot(regs) ==
    /\ SCANCODE_QUEUE = <<>>
    /\ kb_waker = NoTask
    /\ KEY_STREAMS = [id \in StreamIds |->
                        [reg |-> id \in regs, queue |-> <<>>, waker |-> NoTask]]
    /\ kb = [typed |-> 0, accepted |-> 0, dropped |-> 0, yielded |-> 0, fifo |-> TRUE,
             local |-> 0, keys |-> 0, limit |-> TypedCap]

\* no ping has been started; the shell's KeyStream is registered
ShellBoot ==
    /\ ping = [sent |-> <<>>, replies |-> 0]
    /\ KeyboardBoot({1})

ExtBoot == Rtl8139New /\ PciBoot /\ MemBoot /\ SockBoot /\ WaitBoot /\ ShellBoot

\* Executor::new followed by executor.spawn of the boot tasks, whose
\* futures are ks[1], ks[2], ...; n is the number of task ids of the run
ExecutorBoot(ks, n) ==
    /\ tasks = 1..Len(ks)
    /\ task_queue = [i \in 1..Len(ks) |-> i]
    /\ waker_cache = {}
    /\ incoming_tasks = <<>>
    /\ pc = "add_incoming"
    /\ cur = NoTask
    /\ int_enabled = TRUE
    /\ next_id = Len(ks) + 1
    /\ kind = [t \in 1..n |-> IF t <= Len(ks) THEN ks[t] ELSE "none"]
    /\ tpc = [t \in 1..n |-> "start"]
    /\ held = {}
    /\ CLOCK = 0
    /\ SLEEPERS = <<>>
    /\ wake_at = [t \in 1..n |-> 0]
    /\ sleep_waker = [t \in 1..n |-> FALSE]
    /\ sleep_time = [t \in 1..n |-> 0]
    /\ sleep_arg = [t \in 1..n |-> [tick |-> 0, ms |-> 0]]
    /\ tx_ready = FALSE
    /\ tx_waker = NoTask
    /\ rx_ready = FALSE
    /\ rx_waker = NoTask
    /\ saved_if = TRUE

\* kernel_main up to executor.run(): the devices are set up, then the
\* executor is built and the boot tasks spawned
Boot(ks, n) == ExecutorBoot(ks, n) /\ ExtBoot

\* Executor::add_incoming_tasks, one pop per step, with Executor::spawn
AddIncomingTasks ==
    /\ pc = "add_incoming"
    /\ IF incoming_tasks = <<>>
       THEN /\ pc' = "run_ready"
            /\ UNCHANGED <<tasks, task_queue, incoming_tasks>>
       ELSE LET id == Head(incoming_tasks) IN
            /\ incoming_tasks' = Tail(incoming_tasks)
            /\ IF id \in tasks
               THEN pc' = "panic" /\ UNCHANGED <<tasks, task_queue>>
               ELSE /\ tasks' = tasks \cup {id}
                    /\ IF WakeTaskFull(task_queue)
                       THEN pc' = "panic" /\ UNCHANGED task_queue
                       ELSE pc' = pc /\ task_queue' = WakeTask(task_queue, id)
    /\ UNCHANGED <<waker_cache, cur, int_enabled, next_id, kind, tpc, held, saved_if>>
    /\ UNCHANGED timeVars
    /\ UNCHANGED netVars
    /\ UNCHANGED extVars

\* Executor::run_ready_tasks, the head of its loop: pop an id, skip it when
\* the task no longer exists, else cache a waker and start the poll
RunReadyTasks ==
    /\ pc = "run_ready"
    /\ IF task_queue = <<>>
       THEN /\ pc' = "sleep_if_idle"
            /\ UNCHANGED <<task_queue, waker_cache, cur>>
       ELSE LET id == Head(task_queue) IN
            /\ task_queue' = Tail(task_queue)
            /\ IF id \notin tasks
               THEN UNCHANGED <<pc, waker_cache, cur>>
               ELSE /\ waker_cache' = waker_cache \cup {id}
                    /\ cur' = id
                    /\ pc' = "poll"
    /\ UNCHANGED <<tasks, incoming_tasks, int_enabled, next_id, kind, tpc, held, saved_if>>
    /\ UNCHANGED timeVars
    /\ UNCHANGED netVars
    /\ UNCHANGED extVars

\* a Ready that removes the task and leaves its cached waker behind
PollReadyKeepWaker ==
    /\ tasks' = tasks \ {cur}
    /\ waker_cache' = waker_cache
    /\ pc' = "run_ready"
    /\ cur' = NoTask

\* the match on task.poll in run_ready_tasks: Ready removes the task and
\* its cached waker
PollReady ==
    /\ tasks' = tasks \ {cur}
    /\ waker_cache' = waker_cache \ {cur}
    /\ pc' = "run_ready"
    /\ cur' = NoTask

PollPending ==
    /\ UNCHANGED <<tasks, waker_cache>>
    /\ pc' = "run_ready"
    /\ cur' = NoTask

\* a sleep_if_idle that checks the queue with interrupts still enabled
SleepIfIdleNoDisable ==
    /\ pc = "sleep_if_idle"
    /\ pc' = "idle_check"
    /\ UNCHANGED <<tasks, task_queue, waker_cache, incoming_tasks, cur, int_enabled,
                   next_id, kind, tpc, held, saved_if>>
    /\ UNCHANGED timeVars
    /\ UNCHANGED netVars
    /\ UNCHANGED extVars

\* Executor::sleep_if_idle: interrupts::disable()
SleepIfIdleDisable ==
    /\ pc = "sleep_if_idle"
    /\ int_enabled' = FALSE
    /\ pc' = "idle_check"
    /\ UNCHANGED <<tasks, task_queue, waker_cache, incoming_tasks, cur, next_id,
                   kind, tpc, held, saved_if>>
    /\ UNCHANGED timeVars
    /\ UNCHANGED netVars
    /\ UNCHANGED extVars

\* Executor::sleep_if_idle: if self.task_queue.is_empty()
SleepIfIdleCheck ==
    /\ pc = "idle_check"
    /\ pc' = IF task_queue = <<>> THEN "idle_hlt" ELSE "idle_enable"
    /\ UNCHANGED <<tasks, task_queue, waker_cache, incoming_tasks, cur, int_enabled,
                   next_id, kind, tpc, held, saved_if>>
    /\ UNCHANGED timeVars
    /\ UNCHANGED netVars
    /\ UNCHANGED extVars

\* Executor::sleep_if_idle: enable_and_hlt() (sti; hlt: the first interrupt
\* is taken with the CPU already halted) or interrupts::enable()
SleepIfIdleResume ==
    /\ pc \in {"idle_hlt", "idle_enable"}
    /\ int_enabled' = TRUE
    /\ pc' = IF pc = "idle_hlt" THEN "hlt" ELSE "add_incoming"
    /\ UNCHANGED <<tasks, task_queue, waker_cache, incoming_tasks, cur, next_id,
                   kind, tpc, held, saved_if>>
    /\ UNCHANGED timeVars
    /\ UNCHANGED netVars
    /\ UNCHANGED extVars

\* the task ids of the run
TaskIds == DOMAIN kind

\* a task is parked at `where` when its last poll returned Pending there
Parked(t, where) == t \in tasks /\ tpc[t] = where /\ cur # t

\* what every step of a poll leaves alone
PollFrame == UNCHANGED <<incoming_tasks, int_enabled, next_id, kind, held, saved_if>>

InPoll(k) == pc = "poll" /\ kind[cur] = k

\* ------------------------------------------------------ Yield (time.rs)
\* Yield::poll: the first poll stores polled, wakes its own task and is
\* Pending; the second is Ready
YieldPoll ==
    /\ InPoll("yield")
    /\ IF tpc[cur] = "start"
       THEN /\ tpc' = [tpc EXCEPT ![cur] = "yielded"]
            /\ IF WakeTaskFull(task_queue)
               THEN /\ pc' = "panic"
                    /\ UNCHANGED <<tasks, task_queue, waker_cache, cur>>
               ELSE /\ task_queue' = WakeTask(task_queue, cur)
                    /\ PollPending
       ELSE /\ tpc' = [tpc EXCEPT ![cur] = "done"]
            /\ PollReady
            /\ UNCHANGED task_queue
    /\ PollFrame
    /\ UNCHANGED timeVars
    /\ UNCHANGED netVars
    /\ UNCHANGED extVars

\* ------------------------------------------- an arbitrary future (Task)
\* task.poll of a future the model knows nothing about: it may leave a
\* clone of its waker with an outside party, and is Ready or Pending
GenericPoll ==
    /\ InPoll("generic")
    /\ \E stash \in BOOLEAN, ready \in BOOLEAN :
        /\ held' = IF stash THEN held \cup {cur} ELSE held
        /\ IF ready
           THEN tpc' = [tpc EXCEPT ![cur] = "done"] /\ PollReady
           ELSE tpc' = [tpc EXCEPT ![cur] = "parked"] /\ PollPending
    /\ UNCHANGED <<task_queue, incoming_tasks, int_enabled, next_id, kind, saved_if>>
    /\ UNCHANGED timeVars
    /\ UNCHANGED netVars
    /\ UNCHANGED extVars

\* impl Wake for TaskWaker, fired from an interrupt handler by the outside
\* party: wake consumes the clone, wake_by_ref keeps it.  The waker pushes
\* the id whether or not the task still exists.
WakeHeld ==
    /\ int_enabled
    /\ pc # "panic"
    /\ Len(task_queue) < MaxQueue
    /\ \E t \in held, by_ref \in BOOLEAN :
        /\ task_queue' = WakeTask(task_queue, t)
        /\ held' = IF by_ref THEN held ELSE held \ {t}
    /\ pc' = AfterInterrupt(pc)
    /\ UNCHANGED <<tasks, waker_cache, incoming_tasks, cur, int_enabled, next_id,
                   kind, tpc, saved_if>>
    /\ UNCHANGED timeVars
    /\ UNCHANGED netVars
    /\ UNCHANGED extVars

\* ------------------------------------------- TaskSpawner (executor.rs)
\* a capacity check that lets one task too many in
SpawnFullOffByOne(q) == Len(q) > IncomingCap

\* TaskSpawner::spawn: push onto the incoming queue, panic when it is full
SpawnFull(q) == Len(q) >= IncomingCap

SpawnPush(q, id) == Append(q, id)

\* the futures a running task hands to spawn_task
ChildKinds == {"generic", "yield"}

\* a task that calls spawn_task(Task::new(..)) some number of times within
\* one poll and then completes; Task::new draws the next TaskId and the
\* children run one of the futures K
SpawnerPollOf(K) ==
    /\ InPoll("spawner")
    /\ \/ /\ next_id \in TaskIds
          /\ \E k \in K : kind' = [kind EXCEPT ![next_id] = k]
          /\ next_id' = next_id + 1
          /\ IF SpawnFull(incoming_tasks)
             THEN pc' = "panic" /\ UNCHANGED incoming_tasks
             ELSE pc' = pc /\ incoming_tasks' = SpawnPush(incoming_tasks, next_id)
          /\ UNCHANGED <<tasks, waker_cache, cur, tpc>>
       \/ /\ tpc' = [tpc EXCEPT ![cur] = "done"]
          /\ PollReady
          /\ UNCHANGED <<incoming_tasks, next_id, kind>>
    /\ UNCHANGED <<task_queue, int_enabled, held, saved_if>>
    /\ UNCHANGED timeVars
    /\ UNCHANGED netVars
    /\ UNCHANGED extVars

\* the spawning task with children that yield or run an arbitrary future
SpawnerPoll == SpawnerPollOf(ChildKinds)

\* the spawning task with children that all yield
SpawnYieldersPoll == SpawnerPollOf({"yield"})

\* a task that calls spawn_task for yielding children until the incoming
\* queue is full, within one poll, and then completes
SpawnBatchPoll ==
    /\ InPoll("batch")
    /\ IF next_id \in TaskIds /\ ~SpawnFull(incoming_tasks)
       THEN /\ kind' = [kind EXCEPT ![next_id] = "yield"]
            /\ next_id' = next_id + 1
            /\ incoming_tasks' = SpawnPush(incoming_tasks, next_id)
            /\ UNCHANGED <<tasks, waker_cache, cur, tpc, pc>>
       ELSE /\ tpc' = [tpc EXCEPT ![cur] = "done"]
            /\ PollReady
            /\ UNCHANGED <<incoming_tasks, next_id, kind>>
    /\ UNCHANGED <<task_queue, int_enabled, held, saved_if>>
    /\ UNCHANGED timeVars
    /\ UNCHANGED netVars
    /\ UNCHANGED extVars

\* ------------------------------------------------------ Sleep (time.rs)
\* the durations a task passes to sleep(), in milliseconds
Durations == 0..MaxDur

\* sleep(): start_time = time(); end_time = start_time + duration
SleepCall ==
    /\ InPoll("sleep")
    /\ tpc[cur] = "start"
    /\ \E d \in Durations :
        /\ wake_at' = [wake_at EXCEPT ![cur] = Time(CLOCK) + DurUnits(d)]
        /\ sleep_arg' = [sleep_arg EXCEPT ![cur] = [tick |-> CLOCK, ms |-> d]]
    /\ tpc' = [tpc EXCEPT ![cur] = "sleep_push"]
    /\ PollFrame
    /\ UNCHANGED <<tasks, task_queue, waker_cache, pc, cur>>
    /\ UNCHANGED <<CLOCK, SLEEPERS, sleep_waker, sleep_time>>
    /\ UNCHANGED netVars
    /\ UNCHANGED extVars

\* what a step of sleep() between the call and the poll leaves alone
SleepFrame ==
    /\ UNCHANGED <<tasks, task_queue, waker_cache, incoming_tasks, pc, cur, next_id,
                   kind, held>>
    /\ UNCHANGED <<CLOCK, wake_at, sleep_waker, sleep_time, sleep_arg>>
    /\ UNCHANGED netVars
    /\ UNCHANGED extVars

\* a sleep() that takes the lock with the interrupt flag as it is
SleepNoDisable ==
    /\ InPoll("sleep")
    /\ tpc[cur] = "sleep_push"
    /\ saved_if' = int_enabled
    /\ tpc' = [tpc EXCEPT ![cur] = "sleep_lock"]
    /\ SleepFrame
    /\ UNCHANGED <<int_enabled, SLEEPERS>>

\* sleep(): without_interrupts saves the flag and disables
SleepDisable ==
    /\ InPoll("sleep")
    /\ tpc[cur] = "sleep_push"
    /\ saved_if' = int_enabled
    /\ int_enabled' = FALSE
    /\ tpc' = [tpc EXCEPT ![cur] = "sleep_lock"]
    /\ SleepFrame
    /\ UNCHANGED SLEEPERS

\* a task is inside SLEEPERS.lock(): it holds the spin lock of the list
SleepersLocked == \E t \in tasks : tpc[t] = "sleep_locked"

\* sleep(): SLEEPERS.lock()
SleepLock ==
    /\ InPoll("sleep")
    /\ tpc[cur] = "sleep_lock"
    /\ ~SleepersLocked
    /\ tpc' = [tpc EXCEPT ![cur] = "sleep_locked"]
    /\ SleepFrame
    /\ UNCHANGED <<int_enabled, saved_if, SLEEPERS>>

\* sleep(): .push(sleepster.clone()); the guard is dropped with the statement
SleepPush ==
    /\ InPoll("sleep")
    /\ tpc[cur] = "sleep_locked"
    /\ SLEEPERS' = Append(SLEEPERS, cur)
    /\ tpc' = [tpc EXCEPT ![cur] = "sleep_sti"]
    /\ SleepFrame
    /\ UNCHANGED <<int_enabled, saved_if>>

\* sleep(): without_interrupts restores the flag
SleepRestore ==
    /\ InPoll("sleep")
    /\ tpc[cur] = "sleep_sti"
    /\ int_enabled' = saved_if
    /\ tpc' = [tpc EXCEPT ![cur] = "sleep_poll"]
    /\ SleepFrame
    /\ UNCHANGED <<saved_if, SLEEPERS>>

\* Sleep::poll: let time = time()
SleepPollTime ==
    /\ InPoll("sleep")
    /\ tpc[cur] \in {"sleep_poll", "sleeping"}
    /\ sleep_time' = [sleep_time EXCEPT ![cur] = Time(CLOCK)]
    /\ tpc' = [tpc EXCEPT ![cur] = "sleep_cmp"]
    /\ PollFrame
    /\ UNCHANGED <<tasks, task_queue, waker_cache, pc, cur>>
    /\ UNCHANGED <<CLOCK, SLEEPERS, wake_at, sleep_waker, sleep_arg>>
    /\ UNCHANGED netVars
    /\ UNCHANGED extVars

\* a comparison that rounds the time read up by one tick
SleepExpiredEarly(time, at) == time + TickUnits >= at

\* Sleep::poll: time >= self._inner.wake_at
SleepExpired(time, at) == time >= at

\* Sleep::poll: Ready when the time read has reached wake_at, else register
\* the waker and return Pending
SleepPollCheck ==
    /\ InPoll("sleep")
    /\ tpc[cur] = "sleep_cmp"
    /\ IF SleepExpired(sleep_time[cur], wake_at[cur])
       THEN /\ tpc' = [tpc EXCEPT ![cur] = "done"]
            /\ PollReady
            /\ UNCHANGED sleep_waker
       ELSE /\ sleep_waker' = [sleep_waker EXCEPT ![cur] = TRUE]
            /\ tpc' = [tpc EXCEPT ![cur] = "sleeping"]
            /\ PollPending
    /\ PollFrame
    /\ UNCHANGED task_queue
    /\ UNCHANGED <<CLOCK, SLEEPERS, wake_at, sleep_time, sleep_arg>>
    /\ UNCHANGED netVars
    /\ UNCHANGED extVars

\* a tick counter that wraps to zero
ClockTickWrap(c) == IF c < MaxClock THEN c + 1 ELSE 0

\* CLOCK.fetch_add(1); beyond MaxClock the tick is delivered but not counted
ClockTick(c) == IF c < MaxClock THEN c + 1 ELSE c

\* wake_sleepers: the entries retain() removes, in list order
Expired(time) == SelectSeq(SLEEPERS, LAMBDA s : wake_at[s] <= time)

\* a retain() that keeps nothing
RetainedNone(time) == <<>>

\* wake_sleepers: the entries retain() keeps, in list order
Retained(time) == SelectSeq(SLEEPERS, LAMBDA s : ~(wake_at[s] <= time))

\* wake_sleepers: AtomicWaker::wake of the removed entries pushes the id of
\* each one that has a waker registered
Woken(time) == SelectSeq(Expired(time), LAMBDA s : sleep_waker[s])

\* timer_interrupt_handler: increment CLOCK, then wake_sleepers, whose
\* SLEEPERS.lock() spins for ever, with interrupts off, when the code the
\* handler interrupted holds the lock
TimerInterrupt ==
    /\ int_enabled
    /\ pc # "panic"
    /\ CLOCK' = ClockTick(CLOCK)
    /\ IF SleepersLocked
       THEN /\ pc' = "irq_spin"
            /\ int_enabled' = FALSE
            /\ UNCHANGED <<SLEEPERS, sleep_waker, task_queue>>
       ELSE LET time == Time(CLOCK') IN
            /\ SLEEPERS' = Retained(time)
            /\ sleep_waker' = [t \in TaskIds |->
                                 IF t \in Range(Expired(time)) THEN FALSE
                                 ELSE sleep_waker[t]]
            /\ IF Len(task_queue) + Len(Woken(time)) > TaskQueueCap
               THEN pc' = "panic" /\ UNCHANGED task_queue
               ELSE /\ task_queue' = task_queue \o Woken(time)
                    /\ pc' = AfterInterrupt(pc)
            /\ UNCHANGED int_enabled
    /\ UNCHANGED <<tasks, waker_cache, incoming_tasks, cur, next_id,
                   kind, tpc, held, saved_if>>
    /\ UNCHANGED <<wake_at, sleep_time, sleep_arg>>
    /\ UNCHANGED netVars
    /\ UNCHANGED extVars

\* ------------------- the pump task (network.rs) and its two futures
\* what a step of the pump leaves alone
PumpFrame ==
    /\ UNCHANGED <<tasks, task_queue, waker_cache, incoming_tasks, pc, cur,
                   next_id, kind, held>>
    /\ UNCHANGED timeVars

\* the frames the wire brings: an ICMP datagram for the bound socket, a TCP
\* segment with data, a TCP segment that closes the connection
Frames == {"echo", "data", "fin"}

\* the for loop of the pump over its interfaces 1..n, `changed = changed ||
\* iface.poll()`: poll runs while changed is false, takes what the wire
\* holds for the interface and returns whether there was anything
RECURSIVE PollIfaces(_, _)
PollIfaces(n, w) ==
    IF n = 0
    THEN [changed |-> FALSE, polled |-> {}, wire |-> w, frame |-> "none"]
    ELSE LET r == PollIfaces(n - 1, w) IN
         IF r.changed
         THEN r
         ELSE [changed |-> w[n] # "none",
               polled  |-> r.polled \cup {n},
               wire    |-> [r.wire EXCEPT ![n] = "none"],
               frame   |-> w[n]]

\* Interface::poll hands a frame to the sockets: a datagram or a segment
\* goes into the rx buffer of its socket while there is room
Buffered(rx, set, frame) ==
    [h \in Handles |->
        IF \/ frame = "echo" /\ h = IcmpHandle /\ set[h].type = "icmp"
           \/ frame = "data" /\ h = TcpHandle /\ set[h].type = "tcp"
                             /\ set[h].state = "established"
        THEN IF rx[h] < RxRoom THEN rx[h] + 1 ELSE rx[h]
        ELSE rx[h]]

\* Interface::poll hands a closing segment to its TCP socket
Closed(set, frame) ==
    [h \in Handles |->
        IF frame = "fin" /\ h = TcpHandle /\ set[h].type = "tcp"
                        /\ set[h].state = "established"
        THEN [set[h] EXCEPT !.state = "closed"]
        ELSE set[h]]

\* AtomicWaker::wake on a slot holding the waker of task w: the id is pushed
NotifyWake(q, w) == IF w = NoTask THEN q ELSE WakeTask(q, w)

\* the drain of RECEIVING_SOCKETS: the run queue after sock.waker.wake() of
\* each waiter of the list, in its order
RECURSIVE DrainWake(_, _, _)
DrainWake(q, list, ws) ==
    IF list = <<>>
    THEN q
    ELSE DrainWake(NotifyWake(q, IF ws[Head(list)].waker THEN Head(list) ELSE NoTask),
                   Tail(list), ws)

\* a drain that wakes the waiters and leaves their ready flags alone
DrainReadyNoStore(ws, list) ==
    [t \in DOMAIN ws |-> IF t \in Range(list) THEN [ws[t] EXCEPT !.waker = FALSE]
                         ELSE ws[t]]

\* the drain of RECEIVING_SOCKETS: sock.ready.store(true), then the wake
\* that takes the waker out of its slot, for each waiter of the list
DrainReady(ws, list) ==
    [t \in DOMAIN ws |-> IF t \in Range(list) THEN [ready |-> TRUE, waker |-> FALSE]
                         ELSE ws[t]]

\* keep_pumping_interfaces: the head of the loop, after get_interfaces() on
\* the first poll of the task; iface.poll() is entered with the interrupt
\* flag as it is (the without_interrupts around it is commented out)
PumpIteration ==
    /\ InPoll("pump")
    /\ tpc[cur] \in {"start", "pump_loop"}
    /\ pump_ifaces' = IF tpc[cur] = "start" THEN NET_IFACES ELSE pump_ifaces
    /\ tpc' = [tpc EXCEPT ![cur] = "iface_poll"]
    /\ PumpFrame
    /\ UNCHANGED <<int_enabled, saved_if>>
    /\ UNCHANGED netVars
    /\ UNCHANGED <<ringVars, pciVars, memVars, shellVars, sockVars>>
    /\ UNCHANGED <<NET_IFACES, poll_log, wire, sock_rx, RECEIVING_SOCKETS, sock_waiter>>

\* keep_pumping_interfaces: the for loop polls the interfaces, the drain of
\* RECEIVING_SOCKETS follows when changed is true, then rtl_receive() and
\* wait_for_tx() build the two futures select() polls
PumpPollInterfaces ==
    /\ InPoll("pump")
    /\ tpc[cur] = "iface_poll"
    /\ LET r == PollIfaces(pump_ifaces, wire) IN
       /\ poll_log' = [polled |-> r.polled, changed |-> r.changed]
       /\ wire' = r.wire
       /\ sock_rx' = Buffered(sock_rx, SOCKETS, r.frame)
       /\ SOCKETS' = Closed(SOCKETS, r.frame)
       /\ IF r.changed
          THEN /\ task_queue' = DrainWake(task_queue, RECEIVING_SOCKETS, sock_waiter)
               /\ sock_waiter' = DrainReady(sock_waiter, RECEIVING_SOCKETS)
               /\ RECEIVING_SOCKETS' = <<>>
          ELSE UNCHANGED <<task_queue, sock_waiter, RECEIVING_SOCKETS>>
    /\ tpc' = [tpc EXCEPT ![cur] = "rx_cli"]
    /\ UNCHANGED <<tasks, waker_cache, incoming_tasks, pc, cur, next_id, kind, held>>
    /\ UNCHANGED timeVars
    /\ UNCHANGED <<int_enabled, saved_if>>
    /\ UNCHANGED netVars
    /\ UNCHANGED <<ringVars, pciVars, memVars, shellVars>>
    /\ UNCHANGED <<sock_alive, listener, accepted>>
    /\ UNCHANGED <<NET_IFACES, pump_ifaces>>

\* a poll of Rtl8139Recv that leaves interrupts enabled
RxPollNoDisable ==
    /\ InPoll("pump")
    /\ tpc[cur] \in {"rx_cli", "parked"}
    /\ saved_if' = int_enabled
    /\ tpc' = [tpc EXCEPT ![cur] = "rx_check"]
    /\ PumpFrame
    /\ UNCHANGED int_enabled
    /\ UNCHANGED netVars
    /\ UNCHANGED extVars

\* Rtl8139Recv::poll: without_interrupts saves the flag and disables.
\* select() polls this future first, also when the task is polled again
\* after Pending.
RxPollDisable ==
    /\ InPoll("pump")
    /\ tpc[cur] \in {"rx_cli", "parked"}
    /\ saved_if' = int_enabled
    /\ int_enabled' = FALSE
    /\ tpc' = [tpc EXCEPT ![cur] = "rx_check"]
    /\ PumpFrame
    /\ UNCHANGED netVars
    /\ UNCHANGED extVars

\* Rtl8139Recv::poll: let ready = self.inner.ready.load(..)
RxPollLoad ==
    /\ InPoll("pump")
    /\ tpc[cur] = "rx_check"
    /\ tpc' = [tpc EXCEPT ![cur] = IF rx_ready THEN "rx_clear" ELSE "rx_register"]
    /\ PumpFrame
    /\ UNCHANGED <<int_enabled, saved_if>>
    /\ UNCHANGED netVars
    /\ UNCHANGED extVars

\* Rtl8139Recv::poll: ready.store(false) and Ready
RxPollClear ==
    /\ InPoll("pump")
    /\ tpc[cur] = "rx_clear"
    /\ rx_ready' = FALSE
    /\ tpc' = [tpc EXCEPT ![cur] = "rx_sti_ready"]
    /\ PumpFrame
    /\ UNCHANGED <<int_enabled, saved_if, rx_waker, tx_ready, tx_waker>>
    /\ UNCHANGED extVars

\* a poll of Rtl8139Recv that is Pending without registering the waker
RxPollSkipRegister ==
    /\ InPoll("pump")
    /\ tpc[cur] = "rx_register"
    /\ tpc' = [tpc EXCEPT ![cur] = "rx_sti_pending"]
    /\ PumpFrame
    /\ UNCHANGED <<int_enabled, saved_if>>
    /\ UNCHANGED netVars
    /\ UNCHANGED extVars

\* Rtl8139Recv::poll: self.inner.waker.register(cx.waker()) and Pending
RxPollRegister ==
    /\ InPoll("pump")
    /\ tpc[cur] = "rx_register"
    /\ rx_waker' = cur
    /\ tpc' = [tpc EXCEPT ![cur] = "rx_sti_pending"]
    /\ PumpFrame
    /\ UNCHANGED <<int_enabled, saved_if, rx_ready, tx_ready, tx_waker>>
    /\ UNCHANGED extVars

\* Rtl8139Recv::poll: without_interrupts restores the flag.  On Ready
\* select() returns and the loop starts over, on Pending it polls WaitForTx.
RxPollRestore ==
    /\ InPoll("pump")
    /\ tpc[cur] \in {"rx_sti_ready", "rx_sti_pending"}
    /\ int_enabled' = saved_if
    /\ tpc' = [tpc EXCEPT ![cur] =
                 IF tpc[cur] = "rx_sti_ready" THEN "pump_loop" ELSE "tx_read1"]
    /\ PumpFrame
    /\ UNCHANGED saved_if
    /\ UNCHANGED netVars
    /\ UNCHANGED extVars

\* WaitForTx::poll: the first load of ready
TxPollRead ==
    /\ InPoll("pump")
    /\ tpc[cur] = "tx_read1"
    /\ tpc' = [tpc EXCEPT ![cur] = IF tx_ready THEN "tx_clear" ELSE "tx_register"]
    /\ PumpFrame
    /\ UNCHANGED <<int_enabled, saved_if>>
    /\ UNCHANGED netVars
    /\ UNCHANGED extVars

\* WaitForTx::poll: ready.store(false) and Ready, after either load; select()
\* returns and the loop starts over
TxPollClear ==
    /\ InPoll("pump")
    /\ tpc[cur] = "tx_clear"
    /\ tx_ready' = FALSE
    /\ tpc' = [tpc EXCEPT ![cur] = "pump_loop"]
    /\ PumpFrame
    /\ UNCHANGED <<int_enabled, saved_if, tx_waker, rx_ready, rx_waker>>
    /\ UNCHANGED extVars

\* WaitForTx::poll: self.inner.waker.register(cx.waker())
TxPollRegister ==
    /\ InPoll("pump")
    /\ tpc[cur] = "tx_register"
    /\ tx_waker' = cur
    /\ tpc' = [tpc EXCEPT ![cur] = "tx_read2"]
    /\ PumpFrame
    /\ UNCHANGED <<int_enabled, saved_if, tx_ready, rx_ready, rx_waker>>
    /\ UNCHANGED extVars

\* a poll of WaitForTx that is Pending right after the registration
TxPollNoRecheck ==
    /\ InPoll("pump")
    /\ tpc[cur] = "tx_read2"
    /\ tpc' = [tpc EXCEPT ![cur] = "parked"]
    /\ PollPending
    /\ PollFrame
    /\ UNCHANGED task_queue
    /\ UNCHANGED timeVars
    /\ UNCHANGED netVars
    /\ UNCHANGED extVars

\* WaitForTx::poll: the second load of ready, after the registration; when
\* it is still false the future, and with it select(), is Pending
TxPollRecheck ==
    /\ InPoll("pump")
    /\ tpc[cur] = "tx_read2"
    /\ IF tx_ready
       THEN /\ tpc' = [tpc EXCEPT ![cur] = "tx_clear"]
            /\ UNCHANGED <<tasks, waker_cache, pc, cur>>
       ELSE /\ tpc' = [tpc EXCEPT ![cur] = "parked"]
            /\ PollPending
    /\ PollFrame
    /\ UNCHANGED task_queue
    /\ UNCHANGED timeVars
    /\ UNCHANGED netVars
    /\ UNCHANGED extVars

\* notify_tx: ready.store(true), then waker.wake().  The socket wrappers
\* call it from a task; the model lets it run at every boundary at which
\* interrupts are enabled, as a call from a handler would.
NotifyTx ==
    /\ int_enabled
    /\ pc # "panic"
    /\ Len(task_queue) < MaxQueue
    /\ tx_ready' = TRUE
    /\ task_queue' = NotifyWake(task_queue, tx_waker)
    /\ tx_waker' = NoTask
    /\ pc' = AfterInterrupt(pc)
    /\ UNCHANGED <<tasks, waker_cache, incoming_tasks, cur, int_enabled, next_id,
                   kind, tpc, held, saved_if, rx_ready, rx_waker>>
    /\ UNCHANGED timeVars
    /\ UNCHANGED extVars

\* the NIC can raise its interrupt line
NicCanInterrupt == nic_init.enabled /\ nic_init.imr # 0

\* rtl8139_handler is at the NIC's vector and finds the I/O base published
NicHandlerReady == nic_init.handler /\ nic_init.io_base

\* the interrupt status words the mask lets through (imr.write(0x5)):
\* Receive OK, Transmit OK, or both
IsrStatuses == {ROK, IsrTok, ROK + IsrTok}

\* a handler that takes every interrupt for a received frame
IsrAny(status) == status # 0

\* (status & ROK) == ROK
IsrRok(status) == (status \div ROK) % 2 = 1

\* isr.write(s) with the s just read
IsrAck(status) == status

\* rtl8139_handler: read and acknowledge the interrupt status; notify_rx
\* (ready.store(true), waker.wake()) when its ROK bit is set; nothing for
\* Transmit OK; notify_end_of_interrupt(43)
\* The NIC raises its line only with the receiver and transmitter enabled
\* and an interrupt unmasked; with no handler at its vector the CPU faults.
NicInterrupt ==
    /\ int_enabled
    /\ pc # "panic"
    /\ Len(task_queue) < MaxQueue
    /\ NicCanInterrupt
    /\ IF ~NicHandlerReady
       THEN /\ pc' = "panic"
            /\ UNCHANGED <<rx_ready, task_queue, rx_waker, irq_last>>
       ELSE /\ \E status \in IsrStatuses :
                /\ IF IsrRok(status)
                   THEN /\ rx_ready' = TRUE
                        /\ task_queue' = NotifyWake(task_queue, rx_waker)
                        /\ rx_waker' = NoTask
                   ELSE UNCHANGED <<rx_ready, task_queue, rx_waker>>
                /\ irq_last' = IF irq_last.seen
                               THEN [seen |-> TRUE, status |-> status,
                                     ack |-> IsrAck(status),
                                     vector |-> IdtVector, eoi |-> NicEoiVector]
                               ELSE irq_last
            /\ pc' = AfterInterrupt(pc)
    /\ UNCHANGED <<tasks, waker_cache, incoming_tasks, cur, int_enabled, next_id,
                   kind, tpc, held, saved_if, tx_ready, tx_waker>>
    /\ UNCHANGED timeVars
    /\ UNCHANGED <<current_tx_buffer, tx_token, rxVars, irq_num, nic_init>>
    /\ UNCHANGED <<pciVars, memVars, shellVars, sockVars, waitVars>>

\* ------------------------------------- the bring-up of the NIC (rtl8139.rs)
\* the statement Rtl8139::new is at
InitAt(name) == nic_init.at <= Len(InitOrder) /\ InitOrder[nic_init.at] = name

\* what a statement of the bring-up leaves alone
InitFrame ==
    /\ UNCHANGED <<coreVars, pciVars, memVars, shellVars, sockVars, waitVars>>
    /\ UNCHANGED <<current_tx_buffer, tx_token, rxVars, irq_num, irq_last>>

\* Rtl8139::new: RTL_IO_BASE.store(io_base); the ports, the PhysBufs
InitNew ==
    /\ InitAt("new")
    /\ nic_init' = [nic_init EXCEPT !.at = @ + 1, !.io_base = TRUE]
    /\ InitFrame

\* init: config1.write(0)
InitPowerOn ==
    /\ InitAt("config1")
    /\ nic_init' = [nic_init EXCEPT !.at = @ + 1]
    /\ InitFrame

\* init: command.write(RST); the reset clears the NIC's registers
InitReset ==
    /\ InitAt("reset")
    /\ nic_init' = [nic_init EXCEPT !.at = @ + 1, !.rst = TRUE, !.imr = 0,
                                     !.enabled = FALSE, !.rbstart = FALSE, !.tsad = 0,
                                     !.rcr = FALSE]
    /\ InitFrame

\* the NIC finishes its reset and clears RST
NicResetDone ==
    /\ nic_init.rst
    /\ nic_init' = [nic_init EXCEPT !.rst = FALSE]
    /\ InitFrame

\* init: while self.command.read() & RST != 0 { spin_loop(); }
InitSpin ==
    /\ InitAt("spin")
    /\ IF nic_init.rst
       THEN /\ nic_init.spins < MaxSpins
            /\ nic_init' = [nic_init EXCEPT !.spins = @ + 1]
       ELSE nic_init' = [nic_init EXCEPT !.at = @ + 1, !.rst_clear = TRUE]
    /\ InitFrame

\* init: rx_buffer_port.write(self.rx_buffer.addr() as u32)
InitRxBuffer ==
    /\ InitAt("rbstart")
    /\ nic_init' = [nic_init EXCEPT !.at = @ + 1, !.rbstart = TRUE]
    /\ InitFrame

\* init: tx_buffer_ports[i].write(self.tx_buffers[i].addr() as u32)
InitTxBuffer ==
    /\ InitAt("tsad")
    /\ nic_init' = [nic_init EXCEPT !.at = @ + 1, !.tsad = @ + 1]
    /\ InitFrame

\* init: imr.write(0x5)
InitImr ==
    /\ InitAt("imr")
    /\ nic_init' = [nic_init EXCEPT !.at = @ + 1, !.imr = ImrMask]
    /\ InitFrame

\* init: idt[32 + irq_num as usize].set_handler_fn(rtl8139_handler)
InitHandler ==
    /\ InitAt("handler")
    /\ nic_init' = [nic_init EXCEPT !.at = @ + 1, !.handler = TRUE]
    /\ InitFrame

\* init: rx_config.write(AB | AM | APM | AAP | WRAP)
InitRxConfig ==
    /\ InitAt("rcr")
    /\ nic_init' = [nic_init EXCEPT !.at = @ + 1, !.rcr = TRUE]
    /\ InitFrame

\* init: command.write(TE | RE)
InitEnable ==
    /\ InitAt("enable")
    /\ nic_init' = [nic_init EXCEPT !.at = @ + 1, !.enabled = TRUE]
    /\ InitFrame

\* ------------------------------- the transmit ring (rtl8139.rs, mod.rs)
\* the frame lengths the stack hands to EtherTxToken::consume
TxLens == {1, 60, 1514}

\* an index that advances without wrapping
NextTxBufferNoWrap(c) == c + 1

\* get_transmit_buffer: (current_tx_buffer.load() + 1) % 4
NextTxBuffer(c) == (c + 1) % TxBuffers

\* transmit_packet: 0x1FFF & len.max(60), the value written to the port
TxStatus(len) == (IF len > MinFrame THEN len ELSE MinFrame) % TxSizeMask

\* EtherTxToken::consume: get_transmit_buffer(len) stores the next index and
\* returns that buffer, which f then fills
GetTransmitBuffer ==
    /\ tx_token.phase = "idle"
    /\ tx_token.count < MaxTx
    /\ \E len \in TxLens :
        /\ current_tx_buffer' = NextTxBuffer(current_tx_buffer)
        /\ tx_token' = [tx_token EXCEPT !.phase = "filled", !.len = len,
                                         !.buf = current_tx_buffer']
    /\ UNCHANGED <<rxVars, irqVars>>
    /\ RingFrame

\* EtherTxToken::consume: transmit_packet(len) writes the status port of
\* the index it loads from current_tx_buffer and waits for OWN and TOK
TransmitPacket ==
    /\ tx_token.phase = "filled"
    /\ tx_token' = [tx_token EXCEPT !.phase = "idle", !.port = current_tx_buffer,
                                     !.size = TxStatus(tx_token.len),
                                     !.count = tx_token.count + 1]
    /\ UNCHANGED <<current_tx_buffer, rxVars, irqVars>>
    /\ RingFrame

\* ------------------------------------------ the receive ring (rtl8139.rs)
\* the lengths the NIC puts in a frame's header: the frame and its CRC
FrameLens == {MinFrame + 4, 564, MaxFrameLen}

\* (x + 3) & !3
Align4(x) == ((x + 3) \div 4) * 4

\* the NIC's read pointer: CAPR + 16 within its ring
RxBufPtr == (CAPR + RxBufferPadding) % RxRingLen

\* the BUFE bit of the command register: nothing unread in the ring
BufferEmpty == RxBufPtr = CBA

\* the bytes of the ring the NIC may write without reaching unread ones
RxAvail == (RxRingLen + RxBufPtr - CBA) % RxRingLen

\* the NIC receives a frame: with WRAP set it writes the header and the
\* frame at CBA, past the end of the ring if need be, and moves CBA to the
\* next dword within the ring; a frame that does not fit is dropped
FrameWritten ==
    /\ pc # "panic"
    /\ Len(rx_log) < MaxRx
    /\ \E n \in FrameLens :
        /\ BufferEmpty \/ n + 8 < RxAvail
        /\ rx_log' = Append(rx_log, [at |-> CBA, n |-> n])
        /\ CBA' = Align4(CBA + n + 4) % RxRingLen
    /\ UNCHANGED <<current_tx_buffer, tx_token, CAPR, rx_offset, rx_last, rx_delivered>>
    /\ UNCHANGED irqVars
    /\ RingFrame

\* the last frame written over the byte at o, 0 when the byte is as
\* PhysBuf::new left it
LastCover(o) ==
    LET S == {i \in 1..Len(rx_log) :
                rx_log[i].at <= o /\ o < rx_log[i].at + 4 + rx_log[i].n}
    IN IF S = {} THEN 0 ELSE CHOOSE i \in S : \A j \in S : j <= i

\* the length words a frame's payload can hold
StaleLens == {0, MinFrame + 4, U16 - 1}

\* header & ROK == ROK for the u16 at rx_buffer[o..o + 2]: the status word
\* of a frame's header, a zero, or two bytes of some frame's payload
StatusAt(o) ==
    LET i == LastCover(o) IN
    IF i = 0 THEN {FALSE}
    ELSE IF rx_log[i].at = o THEN {TRUE}
    ELSE BOOLEAN

\* the u16 at rx_buffer[o + 2..o + 4]
LengthAt(o) ==
    LET i == LastCover(o + 2) IN
    IF i = 0 THEN {0}
    ELSE IF rx_log[i].at = o THEN {rx_log[i].n}
    ELSE StaleLens

\* the frame whose header is at o, 0 when there is none
FrameAt(o) ==
    LET i == LastCover(o) IN
    IF i # 0 /\ rx_log[i].at = o /\ LastCover(o + 2) = i THEN i ELSE 0

\* capr.write((x - RX_BUFFER_PADDING) as u16) for a usize x: the outcomes.
\* The subtraction of a larger value panics in a build with overflow
\* checks and wraps in one without.
CaprWrite(x) ==
    IF x >= RxBufferPadding
    THEN {[panic |-> FALSE, capr |-> (x - RxBufferPadding) % U16]}
    ELSE {[panic |-> TRUE, capr |-> CAPR],
          [panic |-> FALSE, capr |-> (x - RxBufferPadding) % U16]}

\* a slice that keeps the four bytes of the CRC
PacketSliceWithCrc(offset, n) == [lo |-> offset + 4, hi |-> offset + 4 + n]

\* rx_buffer[(offset + 4)..(offset + n)]
PacketSlice(offset, n) == [lo |-> offset + 4, hi |-> offset + n]

\* slicing rx_buffer[lo..hi] panics
SliceFails(lo, hi) == lo > hi \/ hi > RxBufferLen

\* receive_packet: None when BUFE is set; else the header at CAPR + 16;
\* without ROK, CAPR is set from CBA; with ROK, the length, rx_offset, the
\* CAPR write and the vector
ReceivePacket ==
    /\ pc # "panic"
    /\ Len(rx_delivered) <= MaxRx
    /\ LET offset == (CAPR + RxBufferPadding) % U16
           last == [branch |-> "empty", capr |-> CAPR, offset |-> offset, n |-> 0,
                    minuend |-> RxBufferPadding, ret |-> NoVec]
       IN
       IF BufferEmpty
       THEN /\ rx_last' = last
            /\ UNCHANGED <<CAPR, rx_offset, rx_delivered, pc>>
       ELSE IF SliceFails(offset, offset + 2)
       THEN /\ rx_last' = [last EXCEPT !.branch = "header"]
            /\ pc' = "panic"
            /\ UNCHANGED <<CAPR, rx_offset, rx_delivered>>
       ELSE \E rok \in StatusAt(offset) :
            IF ~rok
            THEN \E w \in CaprWrite(CBA % RxBufferLen) :
                 /\ rx_last' = [last EXCEPT !.branch = "norok",
                                             !.minuend = CBA % RxBufferLen]
                 /\ CAPR' = w.capr
                 /\ pc' = IF w.panic THEN "panic" ELSE pc
                 /\ UNCHANGED <<rx_offset, rx_delivered>>
            ELSE IF SliceFails(offset + 2, offset + 4)
            THEN /\ rx_last' = [last EXCEPT !.branch = "length"]
                 /\ pc' = "panic"
                 /\ UNCHANGED <<CAPR, rx_offset, rx_delivered>>
            ELSE \E n \in LengthAt(offset) :
                 LET next == Align4(offset + n + 4)
                     vec == PacketSlice(offset, n)
                     read == [last EXCEPT !.branch = "frame", !.n = n,
                                          !.minuend = next % RxBufferLen]
                 IN
                 /\ rx_offset' = next
                 /\ \E w \in CaprWrite(next % RxBufferLen) :
                      /\ CAPR' = w.capr
                      /\ IF w.panic \/ SliceFails(vec.lo, vec.hi)
                         THEN /\ pc' = "panic"
                              /\ rx_last' = read
                              /\ UNCHANGED rx_delivered
                         ELSE /\ pc' = pc
                              /\ rx_last' = [read EXCEPT !.ret =
                                     [id |-> FrameAt(offset), lo |-> vec.lo, hi |-> vec.hi]]
                              /\ rx_delivered' = Append(rx_delivered, FrameAt(offset))
    /\ UNCHANGED <<current_tx_buffer, tx_token, CBA, rx_log, irqVars>>
    /\ UNCHANGED <<tasks, task_queue, waker_cache, incoming_tasks, cur, int_enabled,
                   next_id, kind, tpc, held, saved_if>>
    /\ UNCHANGED timeVars
    /\ UNCHANGED netVars
    /\ UNCHANGED <<pciVars, memVars, shellVars, sockVars, waitVars>>

\* ------------------------------------------------------------ pci.rs
\* a scan that does not look at the registry first
ScanNeededAlways(reg) == TRUE

\* scan_devices: if PCI_DEVICES.is_initialized() { return; }
ScanNeeded(reg) == ~reg.init

\* scan_devices is called: it returns at once when the registry is
\* initialized, else it initializes it (init_once keeps an existing Vec) and
\* enters its loop
ScanDevicesCall ==
    /\ pci_scan.pos = 0
    /\ pci_scan.calls < MaxScans
    /\ IF ScanNeeded(PCI_DEVICES)
       THEN /\ PCI_DEVICES' = [PCI_DEVICES EXCEPT !.init = TRUE]
            /\ pci_scan' = [pci_scan EXCEPT !.pos = 1]
       ELSE /\ pci_scan' = [pci_scan EXCEPT !.calls = pci_scan.calls + 1]
            /\ UNCHANGED PCI_DEVICES
    /\ UNCHANGED <<pci_bus, pci_cfg>>
    /\ PciFrame

\* scan_devices: one turn of the loop: check_device reads the bus at the
\* position and the device found is pushed; after the last position the
\* call returns
ScanDevicesSlot ==
    /\ pci_scan.pos \in PciSlots
    /\ PCI_DEVICES' = [PCI_DEVICES EXCEPT
                         !.devs = PCI_DEVICES.devs \o CheckDevice(pci_bus, pci_scan.pos)]
    /\ pci_scan' = [pos |-> IF pci_scan.pos = MaxSlots THEN 0 ELSE pci_scan.pos + 1,
                    calls |-> IF pci_scan.pos = MaxSlots THEN pci_scan.calls + 1
                              ELSE pci_scan.calls,
                    reads |-> pci_scan.reads + 1]
    /\ UNCHANGED <<pci_bus, pci_cfg>>
    /\ PciFrame

\* PciDevice::enable_mastering: dword 1 is read, or-ed with 0x4 and written
\* back to the same position (read at function 0, write at self.function,
\* which check_device sets to 0)
EnableMastering ==
    /\ pci_cfg.calls < MaxEnables
    /\ LET read == [hi |-> pci_cfg.hi, lo |-> pci_cfg.lo]
           data == MasterCommand(read)
           after == CfgWrite(pci_cfg, data)
       IN  pci_cfg' = [pci_cfg EXCEPT !.hi = after.hi, !.lo = after.lo,
                                      !.calls = @ + 1, !.read = read,
                                      !.written = data, !.before = read]
    /\ UNCHANGED <<PCI_DEVICES, pci_bus, pci_scan>>
    /\ PciFrame

\* ------------------------------------------------------ allocator.rs
\* the lengths the driver asks for, and empty, one-byte and two-page buffers
BufLens == {0, 1, TxBufferLen, PageSize + 1, RxBufferLen}

\* where the allocator can place a Vec of len bytes in the heap
AllocStarts(len) ==
    {start \in {page * PageSize + off : page \in HeapPages, off \in {0, PageSize \div 2}} :
        start + len <= MaxPages * PageSize}

\* PhysBuf::from: buffer_len == memory_len, the distance between the
\* physical addresses of the last and the first byte
FromAccepts(map, start, len) ==
    PhysAddr(map, start + len - 1) - PhysAddr(map, start) = len - 1

\* the placements of a Vec of len bytes that overlap none of the Vecs of
\* the same length that are alive at the given starts
FreeStarts(len, taken) ==
    {start \in AllocStarts(len) :
        \A t \in taken : start + len <= t \/ t + len <= start}

\* PhysBuf::new(len): vec![0; len], placed by the allocator (an empty Vec
\* allocates nothing)
PhysBufNew ==
    /\ phys_buf.state = "none"
    /\ \E len \in BufLens : \E start \in (IF len = 0 THEN {0} ELSE AllocStarts(len)) :
        phys_buf' = [state |-> "vec", start |-> start, len |-> len, tries |-> 0,
                     live |-> {}]
    /\ UNCHANGED heap_map
    /\ MemFrame

\* PhysBuf::from(vec): vec.len() - 1 and vec[buffer_len] panic on an empty
\* Vec.  The Vec is returned when the two ends are the right distance apart,
\* else it is cloned and from is called on the clone; the rejected Vec is
\* dropped only when that call returns, so the clone is placed clear of
\* every Vec rejected so far, and the allocation fails when no room is left
PhysBufFrom ==
    /\ phys_buf.state = "vec"
    /\ IF phys_buf.len = 0
       THEN phys_buf' = [phys_buf EXCEPT !.state = "panic"]
       ELSE IF FromAccepts(heap_map, phys_buf.start, phys_buf.len)
       THEN phys_buf' = [phys_buf EXCEPT !.state = "returned"]
       ELSE LET alive == phys_buf.live \cup {phys_buf.start}
                 free == FreeStarts(phys_buf.len, alive)
            IN  IF free = {}
                THEN phys_buf' = [phys_buf EXCEPT !.state = "oom", !.live = alive]
                ELSE \E start \in free :
                       phys_buf' = [phys_buf EXCEPT !.start = start, !.live = alive,
                                                    !.tries = phys_buf.tries + 1]
    /\ UNCHANGED heap_map
    /\ MemFrame

\* ------------------------------ socket wrappers (networking/socket)
\* the slots in use
UsedHandles(set) == {h \in Handles : set[h].type # "free"}

\* SocketSet::add: the first empty slot takes the socket
AddHandle(set) == CHOOSE h \in Handles \ UsedHandles(set) :
                      \A g \in Handles \ UsedHandles(set) : h <= g

\* the model's socket set has a slot left
HasRoom(set) == UsedHandles(set) # Handles

\* notify_tx() called by a wrapper, from the running task
NotifyTxCall ==
    /\ tx_ready' = TRUE
    /\ task_queue' = NotifyWake(task_queue, tx_waker)
    /\ tx_waker' = NoTask
    /\ UNCHANGED <<tasks, waker_cache, incoming_tasks, pc, cur, int_enabled, next_id,
                   kind, tpc, held, rx_ready, rx_waker, saved_if>>
    /\ UNCHANGED timeVars

\* what a step of a wrapper leaves alone when it notifies the pump
SockNotifyFrame == NotifyTxCall /\ UNCHANGED <<ringVars, pciVars, memVars, shellVars, waitVars>>

\* IcmpSocket::new
IcmpSocketNew ==
    /\ HasRoom(SOCKETS)
    /\ LET h == AddHandle(SOCKETS) IN
       /\ SOCKETS' = [SOCKETS EXCEPT ![h] = [type |-> "icmp", state |-> "closed",
                                             port |-> NoPort]]
       /\ sock_alive' = sock_alive \cup {h}
    /\ UNCHANGED <<listener, accepted>>
    /\ SockFrame

\* impl Drop for IcmpSocket: SOCKETS.remove(self.handle)
IcmpSocketDrop ==
    /\ \E h \in sock_alive :
        /\ SOCKETS[h].type = "icmp"
        /\ SOCKETS' = [SOCKETS EXCEPT ![h] = FreeSlot]
        /\ sock_alive' = sock_alive \ {h}
    /\ UNCHANGED <<listener, accepted>>
    /\ SockFrame

\* TcpStream::new
TcpStreamNew ==
    /\ HasRoom(SOCKETS)
    /\ LET h == AddHandle(SOCKETS) IN
       /\ SOCKETS' = [SOCKETS EXCEPT ![h] = [type |-> "tcp", state |-> "closed",
                                             port |-> NoPort]]
       /\ sock_alive' = sock_alive \cup {h}
    /\ UNCHANGED <<listener, accepted>>
    /\ SockFrame

\* a TcpStream goes out of scope: TcpStream has no Drop, its handle field
\* is dropped and the socket set is left alone.  The listener's own stream
\* lives as long as the listener.
TcpStreamDrop ==
    /\ \E h \in sock_alive \ {listener.sock} :
        /\ SOCKETS[h].type = "tcp"
        /\ sock_alive' = sock_alive \ {h}
    /\ UNCHANGED <<SOCKETS, listener, accepted>>
    /\ SockFrame

\* the endpoints listen() is called with: port 0 is refused by the socket
ListenPorts == {NoPort, 80}

ReplacementSocketStale(taken, fresh) == taken

\* accept: listener.take() empties the slot, listen_inner refills it with
\* the socket it has just added
ReplacementSocket(taken, fresh) == fresh

\* TcpListener::listen_inner with the endpoint p: a new TcpStream is added
\* to the set; a refused listen returns the error and lets the new wrapper
\* go out of scope, an accepted one stores it in the listener slot
ListenInner(p) ==
    LET h == AddHandle(SOCKETS) IN
    IF p = NoPort
    THEN /\ SOCKETS' = [SOCKETS EXCEPT ![h] = [type |-> "tcp", state |-> "closed",
                                               port |-> NoPort]]
         /\ sock_alive' = sock_alive
         /\ listener' = [listener EXCEPT !.sock = NoHandle, !.endpoint = p]
         /\ SockFrame
    ELSE /\ SOCKETS' = [SOCKETS EXCEPT ![h] = [type |-> "tcp", state |-> "listen",
                                               port |-> p]]
         /\ sock_alive' = sock_alive \cup {h}
         /\ listener' = [listener EXCEPT !.sock = h, !.endpoint = p]
         /\ SockNotifyFrame

\* TcpListener::listen
TcpListenerListen ==
    /\ ~listener.panicked
    /\ \E p \in ListenPorts :
        IF listener.sock # NoHandle
        THEN /\ listener' = [listener EXCEPT !.panicked = TRUE]
             /\ UNCHANGED <<SOCKETS, sock_alive, accepted>>
             /\ SockFrame
        ELSE /\ HasRoom(SOCKETS)
             /\ ListenInner(p)
             /\ UNCHANGED accepted

\* TcpListener::accept, run to its return or its panic: the call returns
\* once the listener's socket may send or receive
TcpListenerAccept ==
    /\ ~listener.panicked
    /\ IF listener.sock = NoHandle
       THEN /\ listener' = [listener EXCEPT !.panicked = TRUE]
            /\ UNCHANGED <<SOCKETS, sock_alive, accepted>>
            /\ SockFrame
       ELSE /\ SOCKETS[listener.sock].state = "established"
            /\ HasRoom(SOCKETS)
            /\ LET h == AddHandle(SOCKETS) IN
               /\ SOCKETS' = [SOCKETS EXCEPT ![h] = [type |-> "tcp", state |-> "listen",
                                                     port |-> listener.endpoint]]
               /\ sock_alive' = sock_alive \cup {h}
               /\ listener' = [listener EXCEPT !.sock = ReplacementSocket(listener.sock, h)]
            /\ accepted' = Append(accepted, listener.sock)
            /\ SockNotifyFrame

\* the interface's poll completes a handshake on a listening socket
PeerConnects ==
    /\ \E h \in Handles :
        /\ SOCKETS[h].type = "tcp"
        /\ SOCKETS[h].state = "listen"
        /\ SOCKETS' = [SOCKETS EXCEPT ![h].state = "established"]
    /\ UNCHANGED <<sock_alive, listener, accepted>>
    /\ SockFrame

\* the interface's poll closes an established connection
PeerCloses ==
    /\ \E h \in Handles :
        /\ SOCKETS[h].type = "tcp"
        /\ SOCKETS[h].state = "established"
        /\ SOCKETS' = [SOCKETS EXCEPT ![h].state = "closed"]
    /\ UNCHANGED <<sock_alive, listener, accepted>>
    /\ SockFrame

\* -------------------- waiting on a socket (icmp.rs, tcp.rs, mod.rs)
\* a wait that is not put on the list
PushWaiterDropped(list, t) == list

\* wait_for_recv: RECEIVING_SOCKETS.lock().push(waiter.clone())
PushWaiter(list, t) == Append(list, t)

\* the poll evaluates the condition of the wrapper's loop: it is the first
\* poll, or the waiter the task awaits has been notified
AtLoopHead(t) == tpc[t] = "start" \/ (tpc[t] = "sock_wait" /\ sock_waiter[t].ready)

\* wait_for_socket_state_change().await reached in this poll: a new waiter
\* goes on the list, its poll finds ready false, registers the waker and is
\* Pending
SocketWait ==
    /\ RECEIVING_SOCKETS' = PushWaiter(RECEIVING_SOCKETS, cur)
    /\ sock_waiter' = [sock_waiter EXCEPT ![cur] = [ready |-> FALSE, waker |-> TRUE]]
    /\ tpc' = [tpc EXCEPT ![cur] = "sock_wait"]
    /\ PollPending

\* the task is polled at the await and its waiter is not ready: the waker
\* is registered again and the poll is Pending
SocketWaitAgain ==
    /\ sock_waiter' = [sock_waiter EXCEPT ![cur].waker = TRUE]
    /\ PollPending
    /\ UNCHANGED <<RECEIVING_SOCKETS, tpc>>

\* the call returns res and the task that made it completes
SocketReturn(res) ==
    /\ tpc' = [tpc EXCEPT ![cur] = res]
    /\ PollReady
    /\ UNCHANGED <<RECEIVING_SOCKETS, sock_waiter>>

\* what a poll of a task inside a socket call leaves alone
SocketPollFrame ==
    /\ PollFrame
    /\ UNCHANGED timeVars
    /\ UNCHANGED <<ringVars, pciVars, memVars, shellVars>>
    /\ UNCHANGED <<sock_alive, listener, accepted>>
    /\ UNCHANGED <<NET_IFACES, pump_ifaces, poll_log, wire>>

\* a poll of a task inside IcmpSocket::recv
IcmpSocketRecv ==
    /\ InPoll("icmp_recv")
    /\ tpc[cur] \in {"start", "sock_wait"}
    /\ IF ~AtLoopHead(cur)
       THEN SocketWaitAgain /\ UNCHANGED sock_rx
       ELSE IF sock_rx[IcmpHandle] > 0
            THEN /\ sock_rx' = [sock_rx EXCEPT ![IcmpHandle] = @ - 1]
                 /\ SocketReturn("returned_ok")
            ELSE SocketWait /\ UNCHANGED sock_rx
    /\ UNCHANGED <<task_queue, SOCKETS>>
    /\ UNCHANGED netVars
    /\ SocketPollFrame

\* ------------------------------------------------ the keyboard (keyboard.rs)
\* a queue test that lets one scancode too many in
ScancodeFullOffByOne(q) == Len(q) > ScancodeCap

\* queue.push(scancode).is_err(): the ArrayQueue of 100 is full
ScancodeFull(q) == Len(q) >= ScancodeCap

\* keyboard.add_byte and process_keyevent of the pc_keyboard crate: most
\* bytes complete a key (a make code, also when a held key repeats), the
\* others (a prefix or break code, here every fiftieth byte) give no key
DecodesToKey(scancode) == scancode % 50 # 0

\* the keys the scancodes 1..n decode to, in order
DecodedKeys(n) == SelectSeq([i \in 1..n |-> i], DecodesToKey)

\* what a step of the keyboard path leaves alone
KbFrame ==
    /\ UNCHANGED <<incoming_tasks, int_enabled, next_id, kind, held, saved_if>>
    /\ UNCHANGED timeVars
    /\ UNCHANGED netVars
    /\ UNCHANGED <<ringVars, pciVars, memVars, sockVars, waitVars, ping>>

\* the keyboard interrupt: add_scancode(scancode).  On a full queue the
\* warning is printed and nothing else happens; else the scancode is queued
\* and WAKER.wake() pushes the registered task's ID
AddScancode ==
    /\ int_enabled
    /\ pc # "panic"
    /\ kb.typed < kb.limit
    /\ IF ScancodeFull(SCANCODE_QUEUE)
       THEN /\ kb' = [kb EXCEPT !.typed = @ + 1, !.dropped = @ + 1]
            /\ UNCHANGED <<SCANCODE_QUEUE, kb_waker, task_queue>>
       ELSE /\ kb' = [kb EXCEPT !.typed = @ + 1, !.accepted = @ + 1]
            /\ SCANCODE_QUEUE' = Append(SCANCODE_QUEUE, kb.accepted + 1)
            /\ task_queue' = NotifyWake(task_queue, kb_waker)
            /\ kb_waker' = NoTask
    /\ pc' = AfterInterrupt(pc)
    /\ UNCHANGED <<tasks, waker_cache, cur, tpc, KEY_STREAMS>>
    /\ KbFrame

\* poll_next has popped a scancode: it is yielded to forward_keys, in order
\* when it is the one after the last one yielded
Yielded(k, scancode) ==
    [k EXCEPT !.yielded = @ + 1, !.local = scancode,
              !.fifo = @ /\ scancode = k.yielded + 1]

\* ScancodeStream::poll_next, the fast path: queue.pop() gives a scancode,
\* or the queue is empty
ScancodePop ==
    /\ InPoll("forward_keys")
    /\ tpc[cur] \in {"start", "fk_parked", "fk_next"}
    /\ IF SCANCODE_QUEUE # <<>>
       THEN /\ kb' = Yielded(kb, Head(SCANCODE_QUEUE))
            /\ SCANCODE_QUEUE' = Tail(SCANCODE_QUEUE)
            /\ tpc' = [tpc EXCEPT ![cur] = "fk_key"]
       ELSE /\ tpc' = [tpc EXCEPT ![cur] = "fk_register"]
            /\ UNCHANGED <<kb, SCANCODE_QUEUE>>
    /\ UNCHANGED <<tasks, task_queue, waker_cache, pc, cur, kb_waker, KEY_STREAMS>>
    /\ KbFrame

\* ScancodeStream::poll_next: WAKER.register(cx.waker())
ScancodeRegister ==
    /\ InPoll("forward_keys")
    /\ tpc[cur] = "fk_register"
    /\ kb_waker' = cur
    /\ tpc' = [tpc EXCEPT ![cur] = "fk_pop2"]
    /\ UNCHANGED <<tasks, task_queue, waker_cache, pc, cur, SCANCODE_QUEUE, KEY_STREAMS, kb>>
    /\ KbFrame

\* ScancodeStream::poll_next: the second queue.pop(): a scancode that came
\* in the meantime is yielded after WAKER.take(), else the poll is Pending
ScancodePopAgain ==
    /\ InPoll("forward_keys")
    /\ tpc[cur] = "fk_pop2"
    /\ IF SCANCODE_QUEUE # <<>>
       THEN /\ kb' = Yielded(kb, Head(SCANCODE_QUEUE))
            /\ SCANCODE_QUEUE' = Tail(SCANCODE_QUEUE)
            /\ kb_waker' = NoTask
            /\ tpc' = [tpc EXCEPT ![cur] = "fk_key"]
            /\ UNCHANGED <<tasks, waker_cache, pc, cur>>
       ELSE /\ tpc' = [tpc EXCEPT ![cur] = "fk_parked"]
            /\ PollPending
            /\ UNCHANGED <<kb, SCANCODE_QUEUE, kb_waker>>
    /\ UNCHANGED <<task_queue, KEY_STREAMS>>
    /\ KbFrame

\* the registered key streams
Registered == {id \in StreamIds : KEY_STREAMS[id].reg}

\* the wakers holder.waker.wake() fires, in the order of the map
RECURSIVE FanOutWake(_, _)
FanOutWake(q, ids) ==
    IF ids = {} THEN q
    ELSE LET id == CHOOSE i \in ids : \A j \in ids : i <= j
         IN  FanOutWake(NotifyWake(q, KEY_STREAMS[id].waker), ids \ {id})

\* forward_keys, the body of its loop: the scancode is decoded and the key,
\* if there is one, goes to every registered stream:
\* holder.queue.push(key).expect("Failed to push key"), holder.waker.wake()
ForwardKey ==
    /\ InPoll("forward_keys")
    /\ tpc[cur] = "fk_key"
    /\ IF ~DecodesToKey(kb.local)
       THEN /\ tpc' = [tpc EXCEPT ![cur] = "fk_next"]
            /\ UNCHANGED <<pc, task_queue, KEY_STREAMS, kb>>
       ELSE IF \E id \in Registered : Len(KEY_STREAMS[id].queue) >= KeyStreamCap
       THEN /\ pc' = "panic"
            /\ UNCHANGED <<tpc, task_queue, KEY_STREAMS, kb>>
       ELSE /\ KEY_STREAMS' = [id \in StreamIds |->
                                 IF id \in Registered
                                 THEN [KEY_STREAMS[id] EXCEPT
                                          !.queue = Append(@, kb.local), !.waker = NoTask]
                                 ELSE KEY_STREAMS[id]]
            /\ task_queue' = FanOutWake(task_queue, Registered)
            /\ kb' = [kb EXCEPT !.keys = @ + 1]
            /\ tpc' = [tpc EXCEPT ![cur] = "fk_next"]
            /\ UNCHANGED pc
    /\ UNCHANGED <<tasks, waker_cache, cur, SCANCODE_QUEUE, kb_waker>>
    /\ KbFrame

\* the stream a task of kind "keys" reads: the shell's, the first one
StreamOf(t) == 1

\* KeyStream::poll_next in the loop of its reader: a key in the queue is
\* popped and the reader asks for the next; on an empty queue the waker is
\* registered, the second pop finds nothing either (only forward_keys, a
\* task, pushes keys) and the poll is Pending
KeyStreamPoll ==
    /\ InPoll("keys")
    /\ LET id == StreamOf(cur) IN
       IF KEY_STREAMS[id].queue # <<>>
       THEN /\ KEY_STREAMS' = [KEY_STREAMS EXCEPT ![id].queue = Tail(@)]
            /\ tpc' = [tpc EXCEPT ![cur] = "ks_next"]
            /\ UNCHANGED <<tasks, waker_cache, pc, cur>>
       ELSE /\ KEY_STREAMS' = [KEY_STREAMS EXCEPT ![id].waker = cur]
            /\ tpc' = [tpc EXCEPT ![cur] = "ks_parked"]
            /\ PollPending
    /\ UNCHANGED <<task_queue, SCANCODE_QUEUE, kb_waker, kb>>
    /\ KbFrame

\* ---------------------------------------------- the shell's ping (shell.rs)
\* sleep(Duration::from_millis(1000)) between two echo requests, in the
\* milliseconds the model's clock can count
PingSleepMs == MaxDur

\* what a step of ping that stays inside the poll leaves alone
PingFrame ==
    /\ PollFrame
    /\ UNCHANGED kbVars
    /\ UNCHANGED <<tasks, waker_cache, pc, cur>>
    /\ UNCHANGED <<ringVars, pciVars, memVars, sockVars>>
    /\ UNCHANGED <<NET_IFACES, pump_ifaces, poll_log, wire, sock_rx, RECEIVING_SOCKETS,
                   sock_waiter>>

\* ping, the head of `for seq_no in 0..count`: icmp_socket.send(remote_addr,
\* icmp_repr) puts the echo request seq_no in the socket and calls
\* notify_tx(); the socket was made and bound before the loop
PingSend ==
    /\ InPoll("ping")
    /\ tpc[cur] \in {"start", "ping_send"}
    /\ ping' = [ping EXCEPT !.sent = Append(@, Len(@))]
    /\ tx_ready' = TRUE
    /\ task_queue' = NotifyWake(task_queue, tx_waker)
    /\ tx_waker' = NoTask
    /\ tpc' = [tpc EXCEPT ![cur] = "ping_recv"]
    /\ UNCHANGED <<rx_ready, rx_waker>>
    /\ UNCHANGED timeVars
    /\ PingFrame

\* ping: icmp_socket.recv().await.unwrap(): the loop of IcmpSocket::recv
\* returns the datagram the socket holds, else it awaits
\* wait_for_socket_state_change(); nothing else is awaited with it.  With
\* the reply printed, the last iteration ends ping and the others go on to
\* their sleep
PingRecv ==
    /\ InPoll("ping")
    /\ tpc[cur] \in {"ping_recv", "sock_wait"}
    /\ IF tpc[cur] = "sock_wait" /\ ~sock_waiter[cur].ready
       THEN SocketWaitAgain /\ UNCHANGED <<sock_rx, ping>>
       ELSE IF sock_rx[IcmpHandle] > 0
            THEN /\ sock_rx' = [sock_rx EXCEPT ![IcmpHandle] = @ - 1]
                 /\ ping' = [ping EXCEPT !.replies = @ + 1]
                 /\ UNCHANGED <<RECEIVING_SOCKETS, sock_waiter>>
                 /\ IF Len(ping.sent) = PingCount
                    THEN tpc' = [tpc EXCEPT ![cur] = "done"] /\ PollReady
                    ELSE /\ tpc' = [tpc EXCEPT ![cur] = "ping_sleep"]
                         /\ UNCHANGED <<tasks, waker_cache, pc, cur>>
            ELSE SocketWait /\ UNCHANGED <<sock_rx, ping>>
    /\ UNCHANGED <<task_queue, SOCKETS>>
    /\ UNCHANGED netVars
    /\ PollFrame
    /\ UNCHANGED timeVars
    /\ UNCHANGED <<ringVars, pciVars, memVars, kbVars>>
    /\ UNCHANGED <<sock_alive, listener, accepted>>
    /\ UNCHANGED <<NET_IFACES, pump_ifaces, poll_log, wire>>

\* ping: sleep(Duration::from_millis(1000)): the Sleep is made and its
\* clone pushed on SLEEPERS, inside without_interrupts
PingSleepCall ==
    /\ InPoll("ping")
    /\ tpc[cur] = "ping_sleep"
    /\ wake_at' = [wake_at EXCEPT ![cur] = Time(CLOCK) + DurUnits(PingSleepMs)]
    /\ sleep_arg' = [sleep_arg EXCEPT ![cur] = [tick |-> CLOCK, ms |-> PingSleepMs]]
    /\ SLEEPERS' = Append(SLEEPERS, cur)
    /\ tpc' = [tpc EXCEPT ![cur] = "ping_sleep_poll"]
    /\ UNCHANGED <<CLOCK, sleep_waker, sleep_time, task_queue, ping>>
    /\ UNCHANGED netVars
    /\ PingFrame

\* ping at .await of the Sleep: Sleep::poll reads the time
PingSleepTime ==
    /\ InPoll("ping")
    /\ tpc[cur] \in {"ping_sleep_poll", "ping_sleeping"}
    /\ sleep_time' = [sleep_time EXCEPT ![cur] = Time(CLOCK)]
    /\ tpc' = [tpc EXCEPT ![cur] = "ping_sleep_cmp"]
    /\ UNCHANGED <<CLOCK, SLEEPERS, wake_at, sleep_waker, sleep_arg, task_queue, ping>>
    /\ UNCHANGED netVars
    /\ PingFrame

\* ping at .await of the Sleep: Sleep::poll is Ready and the next iteration
\* begins, or it registers the waker and is Pending
PingSleepCheck ==
    /\ InPoll("ping")
    /\ tpc[cur] = "ping_sleep_cmp"
    /\ IF SleepExpired(sleep_time[cur], wake_at[cur])
       THEN /\ tpc' = [tpc EXCEPT ![cur] = "ping_send"]
            /\ UNCHANGED <<tasks, waker_cache, pc, cur, sleep_waker>>
       ELSE /\ sleep_waker' = [sleep_waker EXCEPT ![cur] = TRUE]
            /\ tpc' = [tpc EXCEPT ![cur] = "ping_sleeping"]
            /\ PollPending
    /\ PollFrame
    /\ UNCHANGED <<CLOCK, SLEEPERS, wake_at, sleep_time, sleep_arg, task_queue, ping>>
    /\ UNCHANGED netVars
    /\ UNCHANGED <<ringVars, pciVars, memVars, sockVars, kbVars>>
    /\ UNCHANGED <<NET_IFACES, pump_ifaces, poll_log, wire, sock_rx, RECEIVING_SOCKETS,
                   sock_waiter>>

\* a poll of a task inside TcpStream::send: send_slice and notify_tx when
\* the socket may send, else the wait
TcpStreamSend ==
    /\ InPoll("tcp_send")
    /\ tpc[cur] \in {"start", "sock_wait"}
    /\ IF ~AtLoopHead(cur)
       THEN SocketWaitAgain /\ UNCHANGED <<task_queue, netVars>>
       ELSE IF SOCKETS[TcpHandle].state = "established"
            THEN /\ tx_ready' = TRUE
                 /\ task_queue' = NotifyWake(task_queue, tx_waker)
                 /\ tx_waker' = NoTask
                 /\ SocketReturn("returned_ok")
                 /\ UNCHANGED <<rx_ready, rx_waker>>
            ELSE SocketWait /\ UNCHANGED <<task_queue, netVars>>
    /\ UNCHANGED <<sock_rx, SOCKETS>>
    /\ SocketPollFrame

\* a poll of a task inside TcpStream::recv: recv_slice when the socket can
\* receive, else the wait
TcpStreamRecv ==
    /\ InPoll("tcp_recv")
    /\ tpc[cur] \in {"start", "sock_wait"}
    /\ IF ~AtLoopHead(cur)
       THEN SocketWaitAgain /\ UNCHANGED sock_rx
       ELSE IF sock_rx[TcpHandle] > 0
            THEN /\ sock_rx' = [sock_rx EXCEPT ![TcpHandle] = @ - 1]
                 /\ SocketReturn("returned_ok")
            ELSE SocketWait /\ UNCHANGED sock_rx
    /\ UNCHANGED <<task_queue, SOCKETS>>
    /\ UNCHANGED netVars
    /\ SocketPollFrame

\* add_interface: a further interface is registered, by a call made
\* between two polls of the executor
AddInterface ==
    /\ cur = NoTask
    /\ NET_IFACES < MaxIfaces
    /\ NET_IFACES' = NET_IFACES + 1
    /\ UNCHANGED <<pump_ifaces, poll_log, wire, sock_rx, RECEIVING_SOCKETS, sock_waiter>>
    /\ UNCHANGED <<coreVars, ringVars, pciVars, memVars, shellVars, sockVars>>

\* the wire brings a frame to a registered interface that holds none
FrameArrives ==
    /\ \E i \in 1..NET_IFACES, f \in Frames :
        /\ wire[i] = "none"
        /\ wire' = [wire EXCEPT ![i] = f]
    /\ UNCHANGED <<NET_IFACES, pump_ifaces, poll_log, sock_rx, RECEIVING_SOCKETS,
                   sock_waiter>>
    /\ UNCHANGED <<coreVars, ringVars, pciVars, memVars, shellVars, sockVars>>

\* ------------------------------------------------------ specifications
\* the task lists main can boot with, drawn from the futures K
BootLists(K) == UNION {[1..n -> K] : n \in 1..MaxBoot}

\* the steps of the executor itself
Executor ==
    \/ AddIncomingTasks
    \/ RunReadyTasks
    \/ SleepIfIdleDisable
    \/ SleepIfIdleCheck
    \/ SleepIfIdleResume

\* The executor with tasks that yield, spawn and run arbitrary futures,
\* under the timer interrupt and the wakers outside parties hold.
Init == \E ks \in BootLists({"yield", "generic", "spawner"}) : Boot(ks, MaxTasks)

Thread == Executor \/ YieldPoll \/ GenericPoll \/ SpawnerPoll

Next == Thread \/ TimerInterrupt \/ WakeHeld

Spec == Init /\ [][Next]_vars

\* The thread runs whenever it is not halted, and the PIT keeps raising the
\* timer interrupt (lib.rs programs it and unmasks every PIC line).
FairSpec == Spec /\ WF_vars(Thread) /\ WF_vars(TimerInterrupt)

\* The executor with tasks that sleep, under the timer interrupt.
InitTime == \E ks \in BootLists({"sleep", "yield"}) : Boot(ks, MaxBoot)

NextTime ==
    \/ Executor
    \/ YieldPoll
    \/ SleepCall
    \/ SleepDisable
    \/ SleepLock
    \/ SleepPush
    \/ SleepRestore
    \/ SleepPollTime
    \/ SleepPollCheck
    \/ TimerInterrupt

SpecTime == InitTime /\ [][NextTime]_vars

\* The executor with the pump task, alone or beside an arbitrary task,
\* under the NIC and timer interrupts and notify_tx.
InitNet ==
    \E ks \in BootLists({"pump", "generic"}) :
        /\ Cardinality({i \in DOMAIN ks : ks[i] = "pump"}) = 1
        /\ Boot(ks, MaxBoot)

NextNet ==
    \/ Executor
    \/ GenericPoll
    \/ PumpIteration
    \/ PumpPollInterfaces
    \/ RxPollDisable
    \/ RxPollLoad
    \/ RxPollClear
    \/ RxPollRegister
    \/ RxPollRestore
    \/ TxPollRead
    \/ TxPollClear
    \/ TxPollRegister
    \/ TxPollRecheck
    \/ NicInterrupt
    \/ NotifyTx
    \/ WakeHeld
    \/ TimerInterrupt

SpecNet == InitNet /\ [][NextNet]_vars

\* the steps of the executor thread in SpecNet: the executor and the polls
\* of the pump task and of the arbitrary tasks beside it
ThreadNet ==
    \/ Executor
    \/ GenericPoll
    \/ PumpIteration
    \/ PumpPollInterfaces
    \/ RxPollDisable
    \/ RxPollLoad
    \/ RxPollClear
    \/ RxPollRegister
    \/ RxPollRestore
    \/ TxPollRead
    \/ TxPollClear
    \/ TxPollRegister
    \/ TxPollRecheck

\* The thread runs whenever it is not halted.
FairSpecNet == SpecNet /\ WF_vars(ThreadNet)

\* SpecNet without the timer interrupt, which touches none of the pump's
\* state: ending a hlt is what the NIC's interrupt for Transmit OK does too.
NextPump ==
    \/ ThreadNet
    \/ NicInterrupt
    \/ NotifyTx
    \/ WakeHeld

SpecPump == InitNet /\ [][NextPump]_vars

FairSpecPump == SpecPump /\ WF_vars(ThreadNet)

\* The executor with one task that spawns until the incoming queue is full.
SpawnIds == IncomingCap + 2

InitSpawn == Boot(<<"spawner">>, SpawnIds)

NextSpawn == Executor \/ YieldPoll \/ SpawnYieldersPoll \/ TimerInterrupt

SpecSpawn == InitSpawn /\ [][NextSpawn]_vars

\* A sleeping task beside a task that spawns as many yielding children as
\* the spawner's queue admits: the run queue at its capacity, under the
\* timer interrupt that wakes the sleeper.
QueueIds == TaskQueueCap + 2

InitQueue == Boot(<<"sleep", "batch">>, QueueIds)

NextQueue ==
    \/ Executor
    \/ YieldPoll
    \/ SpawnBatchPoll
    \/ SleepCall
    \/ SleepDisable
    \/ SleepLock
    \/ SleepPush
    \/ SleepRestore
    \/ SleepPollTime
    \/ SleepPollCheck
    \/ TimerInterrupt

SpecQueue == InitQueue /\ [][NextQueue]_vars

\* The transmit ring driven by the stack, under the NIC and timer
\* interrupts, which touch none of the ring's state.
InitTx == Boot(<<"pump">>, 1)

NextTx == GetTransmitBuffer \/ TransmitPacket \/ NicInterrupt \/ TimerInterrupt

SpecTx == InitTx /\ [][NextTx]_vars

\* The pump task under the NIC's interrupts, the NIC on any of a few
\* interrupt lines and the runs of its handler observed.
IrqLines == {5, 10, NicEoiVector - PicOffset}

InitIrq ==
    /\ ExecutorBoot(<<"pump">>, 1)
    /\ Rtl8139Fields
    /\ irq_num \in IrqLines
    /\ irq_last = IrqBoot
    /\ nic_init = NicUp
    /\ PciBoot
    /\ MemBoot
    /\ SockBoot
    /\ WaitBoot
    /\ ShellBoot

NextIrq ==
    \/ Executor
    \/ PumpIteration
    \/ PumpPollInterfaces
    \/ RxPollDisable
    \/ RxPollLoad
    \/ RxPollClear
    \/ RxPollRegister
    \/ RxPollRestore
    \/ TxPollRead
    \/ TxPollClear
    \/ TxPollRegister
    \/ TxPollRecheck
    \/ NicInterrupt
    \/ NotifyTx

SpecIrq == InitIrq /\ [][NextIrq]_vars

\* kernel_main in add_interface: Rtl8139::new from the power-on state of the
\* NIC, on any of its interrupt lines, under the timer and NIC interrupts.
InitBringUp ==
    /\ ExecutorBoot(<<>>, 1)
    /\ Rtl8139Fields
    /\ irq_num \in IrqLines
    /\ irq_last = IrqBoot
    /\ nic_init = NicPowerOn
    /\ PciBoot
    /\ MemBoot
    /\ SockBoot
    /\ WaitBoot
    /\ ShellBoot

NextBringUp ==
    \/ InitNew
    \/ InitPowerOn
    \/ InitReset
    \/ NicResetDone
    \/ InitSpin
    \/ InitRxBuffer
    \/ InitTxBuffer
    \/ InitImr
    \/ InitHandler
    \/ InitRxConfig
    \/ InitEnable
    \/ NicInterrupt
    \/ TimerInterrupt

SpecBringUp == InitBringUp /\ [][NextBringUp]_vars

\* The receive ring: the NIC writes frames, receive_packet reads them.
InitRx == Boot(<<"pump">>, 1)

NextRx == FrameWritten \/ ReceivePacket

SpecRx == InitRx /\ [][NextRx]_vars

\* kernel_main before the executor exists: any bus, an uninitialized
\* registry, and calls of scan_devices under the timer interrupt.
InitPci ==
    /\ ExecutorBoot(<<>>, 1)
    /\ Rtl8139New
    /\ MemBoot
    /\ SockBoot
    /\ WaitBoot
    /\ ShellBoot
    /\ pci_bus \in [PciSlots -> PciAnswers]
    /\ PCI_DEVICES = [init |-> FALSE, devs |-> <<>>]
    /\ pci_scan = [pos |-> 0, calls |-> 0, reads |-> 0]
    /\ pci_cfg = [hi |-> 640, lo |-> 3, rw1c |-> TRUE, calls |-> 0,
                  read |-> [hi |-> 0, lo |-> 0], written |-> [hi |-> 0, lo |-> 0],
                  before |-> [hi |-> 0, lo |-> 0]]

NextPci == ScanDevicesCall \/ ScanDevicesSlot \/ TimerInterrupt

SpecPci == InitPci /\ [][NextPci]_vars

\* PhysBuf::new on a heap whose pages are mapped to any distinct frames.
InitMem ==
    /\ ExecutorBoot(<<>>, 1)
    /\ Rtl8139New
    /\ PciBoot
    /\ SockBoot
    /\ WaitBoot
    /\ ShellBoot
    /\ heap_map \in {map \in [HeapPages -> 0..(MaxFrames - 1)] :
                        \A p, q \in HeapPages : p # q => map[p] # map[q]}
    /\ phys_buf = [state |-> "none", start |-> 0, len |-> 0, tries |-> 0, live |-> {}]

NextMem == PhysBufNew \/ PhysBufFrom

SpecMem == InitMem /\ [][NextMem]_vars

\* the socket wrappers: sockets made and dropped, a listener listening and
\* accepting, the peers connecting and closing
InitSock ==
    /\ ExecutorBoot(<<>>, 1)
    /\ Rtl8139New
    /\ PciBoot
    /\ MemBoot
    /\ SockBoot
    /\ WaitBoot
    /\ ShellBoot

NextSock ==
    \/ IcmpSocketNew
    \/ IcmpSocketDrop
    \/ TcpStreamNew
    \/ TcpStreamDrop
    \/ TcpListenerListen
    \/ TcpListenerAccept
    \/ PeerConnects
    \/ PeerCloses

SpecSock == InitSock /\ [][NextSock]_vars

\* the pump beside the tasks that run the socket calls ks: n interfaces are
\* registered, the IcmpSocket and the TcpStream exist, the stream in the
\* state st
SocketBoot(ks, st, n) ==
    /\ ExecutorBoot(<<"pump">> \o ks, 1 + Len(ks))
    /\ Rtl8139New
    /\ PciBoot
    /\ MemBoot
    /\ IfacesBoot(n)
    /\ ShellBoot
    /\ SOCKETS = [h \in Handles |->
                    IF h = IcmpHandle
                    THEN [type |-> "icmp", state |-> "closed", port |-> NoPort]
                    ELSE IF h = TcpHandle
                    THEN [type |-> "tcp", state |-> st, port |-> NoPort]
                    ELSE FreeSlot]
    /\ sock_alive = {IcmpHandle, TcpHandle}
    /\ listener = [sock |-> NoHandle, endpoint |-> NoPort, panicked |-> FALSE]
    /\ accepted = <<>>

\* the stream is connected or closed
InitWait == \E k \in {"icmp_recv", "tcp_send", "tcp_recv"}, st \in {"established", "closed"} : SocketBoot(<<k>>, st, 1)

\* the steps of the executor thread in SpecWait
ThreadWait ==
    \/ Executor
    \/ PumpIteration
    \/ PumpPollInterfaces
    \/ RxPollDisable
    \/ RxPollLoad
    \/ RxPollClear
    \/ RxPollRegister
    \/ RxPollRestore
    \/ TxPollRead
    \/ TxPollClear
    \/ TxPollRegister
    \/ TxPollRecheck
    \/ IcmpSocketRecv
    \/ TcpStreamSend
    \/ TcpStreamRecv

NextWait ==
    \/ ThreadWait
    \/ NicInterrupt
    \/ AddInterface
    \/ FrameArrives

SpecWait == InitWait /\ [][NextWait]_vars

\* the pump beside a task inside IcmpSocket::recv, with one interface or two
InitRecv == \E n \in {1, 2} : SocketBoot(<<"icmp_recv">>, "established", n)

\* the steps of the executor thread in SpecRecv
ThreadRecv ==
    \/ Executor
    \/ PumpIteration
    \/ PumpPollInterfaces
    \/ RxPollDisable
    \/ RxPollLoad
    \/ RxPollClear
    \/ RxPollRegister
    \/ RxPollRestore
    \/ TxPollRead
    \/ TxPollRegister
    \/ TxPollRecheck
    \/ IcmpSocketRecv

NextRecv ==
    \/ ThreadRecv
    \/ NicInterrupt
    \/ FrameArrives

SpecRecv == InitRecv /\ [][NextRecv]_vars

\* The thread runs whenever it is not halted.
FairSpecRecv == SpecRecv /\ WF_vars(ThreadRecv)

\* the pump beside two tasks that wait on their sockets
InitDrain == SocketBoot(<<"icmp_recv", "tcp_recv">>, "established", 1)

NextDrain ==
    \/ ThreadRecv
    \/ TcpStreamRecv
    \/ NicInterrupt
    \/ FrameArrives

SpecDrain == InitDrain /\ [][NextDrain]_vars

\* --------------------------------------------------------------- claims
\* the pump task
IsPump(t) == kind[t] = "pump"

\* C1: a notify_tx is never lost.  Whenever the TX ready flag is set while
\* the task awaiting WaitForTx is parked (its poll returned Pending), the
\* task's id is in the run queue, so it is polled again and that poll finds
\* ready set; a notify_tx that falls inside a poll is seen by one of the two
\* loads of ready.
C1_TxNotifyNotLost ==
    \A t \in TaskIds :
        (IsPump(t) /\ Parked(t, "parked") /\ tx_ready) => t \in Range(task_queue)

\* C1 witness: notify_tx fell between the first load of ready (false) and
\* the registration: the waker is registered, untouched, and the second
\* load is about to find ready set
C1_Witness ==
    \E t \in TaskIds :
        /\ IsPump(t) /\ pc = "poll" /\ cur = t
        /\ tpc[t] = "tx_read2" /\ tx_ready /\ tx_waker = t

\* C2: a notify_rx of the NIC interrupt handler is never lost.  Whenever the
\* RX ready flag is set while the task awaiting Rtl8139Recv is parked, the
\* task's id is in the run queue; the flag is only ever cleared by the poll
\* that returns Ready.
C2_RxNotifyNotLost ==
    \A t \in TaskIds :
        (IsPump(t) /\ Parked(t, "parked") /\ rx_ready) => t \in Range(task_queue)

\* C2 witness: the NIC interrupt fired after the poll returned Pending
C2_Witness ==
    \E t \in TaskIds :
        IsPump(t) /\ Parked(t, "parked") /\ rx_ready /\ t \in Range(task_queue)

\* C3, as claimed: a task parked on a Sleep is always resumed.  At every
\* moment it is in the run queue, or its Sleep is still in the sleep list
\* with the task's waker registered, so that the tick reaching wake_at
\* enqueues it.
C3_SleepAlwaysResumed ==
    \A t \in TaskIds :
        (kind[t] = "sleep" /\ Parked(t, "sleeping")) =>
            \/ t \in Range(task_queue)
            \/ t \in Range(SLEEPERS) /\ sleep_waker[t]

\* C4: a Sleep never completes early.  sleep(d) fixes wake_at at the time
\* of the call plus d, and a Sleep that returned Ready did so with time()
\* at or past wake_at: the ticks counted since the call cover d.
C4_SleepNeverEarly ==
    \A t \in TaskIds :
        /\ (kind[t] = "sleep" /\ tpc[t] # "start") =>
               wake_at[t] = Time(sleep_arg[t].tick) + DurUnits(sleep_arg[t].ms)
        /\ (kind[t] = "sleep" /\ tpc[t] = "done") =>
               /\ Time(CLOCK) >= wake_at[t]
               /\ (CLOCK - sleep_arg[t].tick) * TickUnits >= DurUnits(sleep_arg[t].ms)

\* C4 witness: a sleep of at least one millisecond has completed
C4_Witness ==
    \E t \in TaskIds :
        kind[t] = "sleep" /\ tpc[t] = "done" /\ sleep_arg[t].ms >= 1

\* C5: the CPU is never halted while the run queue holds a task id.
C5_NeverHaltedWithReadyTask == pc = "hlt" => task_queue = <<>>

\* C5 witness: a waker fired by an interrupt after run_ready_tasks found the
\* queue empty is seen by the check made with interrupts disabled
C5_Witness == pc = "idle_check" /\ ~int_enabled /\ task_queue # <<>>

\* C6: every task submitted through the spawner is eventually admitted and
\* polled.
C6_SpawnedTaskPolled ==
    \A id \in 1..MaxTasks :
        (id \in Range(incoming_tasks)) ~> (pc = "poll" /\ cur = id)

\* C6 witness: a task spawned by a running task, admitted and being polled
C6_Witness ==
    /\ pc = "poll"
    /\ \E t \in TaskIds : kind[t] = "spawner" /\ tpc[t] = "done" /\ cur > t

\* C7: spawn never blocks and keeps the incoming queue intact.  A spawn
\* with room appends the task at the tail and returns; a spawn on a full
\* queue panics and leaves the queue as it was; the queue otherwise changes
\* only by the executor taking its head.
C7_SpawnAppendsOrPanics ==
    [][/\ (pc = "poll" /\ kind[cur] = "spawner" /\ next_id' = next_id + 1) =>
            IF Len(incoming_tasks) < IncomingCap
            THEN incoming_tasks' = Append(incoming_tasks, next_id) /\ pc' = "poll"
            ELSE incoming_tasks' = incoming_tasks /\ pc' = "panic"
       /\ incoming_tasks' # incoming_tasks =>
            \/ incoming_tasks' = Append(incoming_tasks, next_id)
            \/ pc = "add_incoming" /\ incoming_tasks' = Tail(incoming_tasks)]_vars

\* C7 witness: a spawn found the incoming queue full and panicked
C7_Witness == pc = "panic" /\ Len(incoming_tasks) = IncomingCap

\* every task of the run is a task that yields once
YieldOnly == \A t \in TaskIds : kind[t] \in {"yield", "none"}

\* C8: with N ready tasks that each yield once, no task is polled a second
\* time before every task has been polled once.
C8_YieldFairness ==
    (YieldOnly /\ pc = "poll" /\ tpc[cur] = "yielded") =>
        \A t \in TaskIds : kind[t] = "yield" => tpc[t] # "start"

\* C8 witness: the second poll of a task, with MaxBoot tasks that yield
C8_Witness ==
    /\ YieldOnly
    /\ Cardinality({t \in TaskIds : kind[t] = "yield"}) = MaxBoot
    /\ pc = "poll" /\ tpc[cur] = "yielded"

\* C9: a completed task is gone from the task map and the waker cache and
\* is never polled again, and the waker cache holds only ids of the task map.
C9_CompletedTaskDropped ==
    /\ waker_cache \subseteq tasks
    /\ \A t \in TaskIds : tpc[t] = "done" => t \notin tasks /\ t \notin waker_cache
    /\ pc = "poll" => cur \in tasks /\ tpc[cur] # "done"

\* C9 witness: the id of a completed task is at the head of the run queue,
\* pushed by a waker that outlived it, and is about to be skipped
C9_Witness ==
    /\ pc = "run_ready" /\ task_queue # <<>>
    /\ tpc[Head(task_queue)] = "done"

\* C10: CLOCK changes only by the increment of the timer interrupt, and
\* time_ms() never decreases from one state to the next.
C10_ClockMonotonic ==
    [][/\ CLOCK' # CLOCK => (TimerInterrupt /\ CLOCK' = CLOCK + 1)
       /\ TimeMs(CLOCK') >= TimeMs(CLOCK)]_vars

\* C10 witness: two ticks have passed and time_ms() has advanced
C10_Witness == CLOCK >= 2 /\ TimeMs(CLOCK) >= 1

\* the pump is inside iface.poll(): the state PumpIteration leaves, in which
\* no flag is ever cleared
PollingInterfaces ==
    \E t \in TaskIds : IsPump(t) /\ pc = "poll" /\ cur = t /\ tpc[t] = "iface_poll"

\* C11: the pump loses no wakeup.  A notification sets its ready flag, and
\* whenever a ready flag is set, with the pump parked in select, polling the
\* interfaces or anywhere else, and with the other flag set or not, the pump
\* later starts an iteration of its loop, which polls the interfaces.
C11_PumpLosesNoWakeup == (tx_ready \/ rx_ready) ~> PollingInterfaces

\* C11 witness: both flags are set at once while the pump is parked in select
C11_Witness ==
    \E t \in TaskIds : IsPump(t) /\ Parked(t, "parked") /\ tx_ready /\ rx_ready

\* C12: every call of NetworkInterface::poll executes with interrupts
\* disabled, so that the NIC interrupt handler never runs inside it.
C12_PollWithInterruptsDisabled == PollingInterfaces => ~int_enabled

\* C13: the transmit ring advances in lockstep with the pairs
\* get_transmit_buffer, transmit_packet.  current_tx_buffer is always in
\* 0..3 and is 3 before the first frame; the k-th buffer handed out is buffer
\* (k - 1) mod 4, one past its predecessor; and transmit_packet writes the
\* status port of the buffer the preceding get_transmit_buffer returned.
C13_TxRingLockstep ==
    /\ current_tx_buffer \in 0..(TxBuffers - 1)
    /\ tx_token.count = 0 /\ tx_token.phase = "idle" => current_tx_buffer = TxBuffers - 1
    /\ tx_token.phase = "filled" =>
          tx_token.buf = tx_token.count % TxBuffers /\ current_tx_buffer = tx_token.buf
    /\ tx_token.phase = "idle" /\ tx_token.count > 0 =>
          /\ tx_token.buf = (tx_token.count - 1) % TxBuffers
          /\ tx_token.port = tx_token.buf
          /\ current_tx_buffer = tx_token.buf

\* C13 witness: the ring has wrapped: the fifth frame went out through
\* buffer 0 again
C13_Witness ==
    tx_token.count = TxBuffers + 1 /\ tx_token.phase = "idle" /\ tx_token.port = 0

\* C14: scan_devices is idempotent.  Once a first scan has returned, a
\* further call reads nothing from the bus and leaves the registry as it
\* was, in content, order and length; the registry is then the list of the
\* devices of the bus in scan order.
C14_ScanIdempotent ==
    [][(pci_scan.calls >= 1 /\ pci_scan.pos = 0) =>
          /\ PCI_DEVICES' = PCI_DEVICES
          /\ pci_scan'.reads = pci_scan.reads
          /\ pci_scan'.pos = 0
          /\ PCI_DEVICES.devs = Scanned(pci_bus, MaxSlots)]_vars

\* C14 witness: a second and a third call have returned on a bus with two
\* devices
C14_Witness ==
    /\ pci_scan.calls = 3 /\ pci_scan.pos = 0
    /\ Len(PCI_DEVICES.devs) = 2

\* C15: a PhysBuf that was returned is physically contiguous: the physical
\* address of its byte i is that of its byte 0 plus i, for every i below
\* its length and for every mapping of the heap pages.
C15_PhysBufContiguous ==
    phys_buf.state = "returned" =>
        \A i \in 0..(phys_buf.len - 1) :
            PhysAddr(heap_map, phys_buf.start + i) = PhysAddr(heap_map, phys_buf.start) + i

\* C16: the socket set holds exactly the handles of the IcmpSocket and
\* TcpStream wrappers that are alive (the listener's stream and the accepted
\* streams included): a dropped wrapper's handle is no longer in the set.
C16_SocketSetIsAliveWrappers == UsedHandles(SOCKETS) = sock_alive

\* C18: once listen() has succeeded, an accept() that returns hands out the
\* listener's socket, which was ready, and leaves the listener holding a
\* socket that was not in the set before, is listening on the same endpoint
\* and is none of the handles handed out; the listener slot, once filled, is
\* never empty; no two accepts return the same handle; listen() on a
\* listener that has a socket panics.
C18_PassiveOpenReplacement ==
    [][/\ accepted' # accepted =>
           /\ listener.sock # NoHandle
           /\ accepted' = Append(accepted, listener.sock)
           /\ SOCKETS[listener.sock].state = "established"
           /\ listener'.sock # NoHandle
           /\ listener'.sock # listener.sock
           /\ listener'.sock \notin Range(accepted')
           /\ SOCKETS[listener'.sock].type = "free"
           /\ SOCKETS'[listener'.sock] =
                  [type |-> "tcp", state |-> "listen", port |-> listener.endpoint]
           /\ listener'.endpoint = listener.endpoint
           /\ listener.endpoint # NoPort
       /\ listener.sock # NoHandle => listener'.sock # NoHandle
       /\ \A i, j \in 1..Len(accepted') : i # j => accepted'[i] # accepted'[j]
       /\ (TcpListenerListen /\ listener.sock # NoHandle) =>
              (listener'.panicked /\ SOCKETS' = SOCKETS)]_vars

\* two accepts have returned and the listener was asked to listen again
C18_Witness ==
    /\ Len(accepted) >= 2
    /\ listener.sock # NoHandle
    /\ listener.panicked

\* C17: TcpStream::send and TcpStream::recv called on a closed socket (it
\* may not send, it has nothing to receive) return an error to the caller:
\* a poll that evaluates the loop condition on such a socket ends the call
\* with an error and does not wait for a state change.
C17_ClosedSocketReturnsError ==
    [][((TcpStreamSend \/ TcpStreamRecv)
          /\ AtLoopHead(cur)
          /\ SOCKETS[TcpHandle].state = "closed"
          /\ sock_rx[TcpHandle] = 0)
       => tpc'[cur] = "returned_err"]_vars

\* the tasks that are inside IcmpSocket::recv
Receivers == {t \in TaskIds : kind[t] = "icmp_recv"}

C20_PumpPollsEveryInterface ==
    [][(InPoll("pump") /\ tpc[cur] = "iface_poll" /\ tpc'[cur] = "rx_cli") =>
          /\ poll_log'.polled = 1..NET_IFACES
          /\ poll_log'.changed = (\E i \in 1..NET_IFACES : wire[i] # "none")]_vars

\* the step of the pump that polls the interfaces and drains the list
PumpPollStep == InPoll("pump") /\ tpc[cur] = "iface_poll" /\ tpc'[cur] = "rx_cli"

\* C21: when a pump iteration observes changed = true, every waiter in
\* RECEIVING_SOCKETS at that moment has ready set when its task is woken
\* (each task with a registered waker is pushed to the run queue, in the
\* order of the list) and the list is empty afterwards; when changed is
\* false the list and all waiters are left untouched.
C21_DrainNotifiesEveryWaiter ==
    [][PumpPollStep =>
         IF poll_log'.changed
         THEN /\ RECEIVING_SOCKETS' = <<>>
              /\ \A t \in Range(RECEIVING_SOCKETS) :
                    /\ sock_waiter'[t].ready
                    /\ sock_waiter[t].waker => t \in Range(task_queue')
              /\ \A t \in DOMAIN sock_waiter \ Range(RECEIVING_SOCKETS) :
                    sock_waiter'[t] = sock_waiter[t]
              /\ task_queue' = task_queue \o
                    SelectSeq(RECEIVING_SOCKETS, LAMBDA t : sock_waiter[t].waker)
         ELSE /\ RECEIVING_SOCKETS' = RECEIVING_SOCKETS
              /\ sock_waiter' = sock_waiter
              /\ task_queue' = task_queue]_vars

\* the pump has notified two waiters in one drain
C21_Witness ==
    /\ poll_log.changed
    /\ RECEIVING_SOCKETS = <<>>
    /\ sock_waiter[2].ready /\ sock_waiter[3].ready
    /\ {2, 3} \subseteq Range(task_queue)

\* C22: after a run of the timer interrupt handler the sleep list holds no
\* entry with wake_at <= now; the entries with wake_at > now are all still
\* in the list, in their order, and were not woken; every removed entry
\* had its waker slot woken: the slot is empty and the task whose waker it
\* held is at the tail of the run queue.
C22_TimerWakesDueSleepers ==
    [][TimerInterrupt =>
         LET now == Time(CLOCK') IN
         /\ \A i \in 1..Len(SLEEPERS') : wake_at[SLEEPERS'[i]] > now
         /\ SLEEPERS' = SelectSeq(SLEEPERS, LAMBDA s : wake_at[s] > now)
         /\ \A s \in Range(SLEEPERS) :
               IF wake_at[s] <= now
               THEN ~sleep_waker'[s]
               ELSE sleep_waker'[s] = sleep_waker[s]
         /\ pc' # "panic" =>
               task_queue' = task_queue \o
                   SelectSeq(SLEEPERS, LAMBDA s : wake_at[s] <= now /\ sleep_waker[s])]_vars

\* a tick has woken and removed one sleeper and kept another
C22_Witness ==
    /\ CLOCK >= 1
    /\ SLEEPERS # <<>>
    /\ \A s \in Range(SLEEPERS) : wake_at[s] > Time(CLOCK)
    /\ \E t \in TaskIds :
          /\ kind[t] = "sleep" /\ tpc[t] = "sleeping"
          /\ t \notin Range(SLEEPERS)
          /\ t \in Range(task_queue)
          /\ wake_at[t] <= Time(CLOCK)

\* C23: the timer interrupt handler never deadlocks on the sleep list.  A
\* task holds the lock of SLEEPERS only with interrupts disabled, so the
\* handler never finds the lock held by the code it interrupted and never
\* spins in SLEEPERS.lock().
C23_TimerNeverDeadlocksOnSleepers ==
    /\ SleepersLocked => ~int_enabled
    /\ pc # "irq_spin"

\* a task holds the lock of the sleep list after ticks have been handled,
\* with its interrupt flag saved as enabled
C23_Witness ==
    /\ SleepersLocked
    /\ saved_if
    /\ CLOCK >= 1

\* C24: firing a TaskWaker never panics: whenever a waker pushes a task id,
\* from a poll (Yield) or from the timer interrupt handler (Sleep), the run
\* queue of capacity 100 has a free slot.
C24_WakerFindsFreeSlot ==
    [][(TimerInterrupt \/ YieldPoll) => pc' # "panic"]_vars

\* C25: for a header with ROK set, receive_packet computes
\* offset = (CAPR + 16) mod 2^16, reads the length n at offset + 2 and
\* returns exactly the n - 4 bytes rx_buffer[offset + 4 .. offset + n]: for a
\* frame the NIC wrote at offset, the frame without its CRC.
C25_ReceivePacketReturnsFrame ==
    [][rx_delivered' # rx_delivered =>
         LET offset == (CAPR + RxBufferPadding) % U16
             n == rx_last'.n
             vec == rx_last'.ret
             id == FrameAt(offset)
         IN /\ TRUE \in StatusAt(offset)
            /\ rx_last'.offset = offset
            /\ n \in LengthAt(offset)
            /\ vec.lo = offset + 4
            /\ vec.hi = offset + n
            /\ vec.hi - vec.lo = n - 4
            /\ vec.id = id
            /\ rx_delivered' = Append(rx_delivered, id)
            /\ id # 0 => /\ n = rx_log[id].n
                         /\ vec.lo = rx_log[id].at + 4
                         /\ vec.hi = rx_log[id].at + 4 + rx_log[id].n - 4]_vars

\* the first frame, the longest there is, was read at offset 0, computed
\* from the CAPR the reset left (0xFFF0), and returned without its CRC
C25_Witness ==
    /\ rx_last.branch = "frame"
    /\ rx_last.capr = CaprReset
    /\ rx_last.offset = 0
    /\ rx_last.ret = [id |-> 1, lo |-> 4, hi |-> MaxFrameLen]
    /\ rx_delivered = <<1>>

\* C26: the consumer stays in step with the NIC, whose offset wraps at
\* 8 KiB: the offset receive_packet reads next, derived from the CAPR it
\* wrote, is the offset of the header of the next undelivered frame (or the
\* offset the NIC writes the next frame at), and the frames delivered are
\* the frames written, each once and in order.
C26_ConsumerInStepWithDevice ==
    LET k == Len(rx_delivered) IN
    /\ rx_delivered = [i \in 1..k |-> i]
    /\ k <= Len(rx_log)
    /\ (CAPR + RxBufferPadding) % U16 =
          IF k < Len(rx_log) THEN rx_log[k + 1].at ELSE CBA

\* C27: the CAPR write never underflows: whenever receive_packet writes
\* CAPR, the value it subtracts 16 from (CBA mod RX_BUFFER_LEN, resp.
\* rx_offset mod RX_BUFFER_LEN) is at least 16, and CAPR holds the
\* difference.
C27_CaprWriteNeverUnderflows ==
    rx_last.branch \in {"norok", "frame"} =>
        /\ rx_last.minuend >= RxBufferPadding
        /\ CAPR = rx_last.minuend - RxBufferPadding

\* C28: every index receive_packet uses is within the 9708 bytes of
\* rx_buffer: offset + 2, offset + 4 and offset + n are at most 9708 and
\* offset + 4 <= offset + n.
C28_ReceiveIndicesInBounds ==
    /\ rx_last.branch \in {"header", "norok", "length", "frame"} =>
          rx_last.offset + 2 <= RxBufferLen
    /\ rx_last.branch \in {"length", "frame"} =>
          rx_last.offset + 4 <= RxBufferLen
    /\ rx_last.branch = "frame" =>
          /\ rx_last.offset + rx_last.n <= RxBufferLen
          /\ rx_last.offset + 4 <= rx_last.offset + rx_last.n

\* C29: the NIC's handler writes back to the interrupt status register the
\* value it read, and calls notify_rx (ready := true, the registered waker
\* woken) exactly when the ROK bit of that value is set; it never touches
\* the TX flag, and an interrupt with only Transmit OK set changes neither
\* flag and wakes no task.
C29_NicHandlerNotifiesRxOnRok ==
    [][NicInterrupt =>
         LET s == irq_last'.status IN
         /\ irq_last'.ack = s
         /\ UNCHANGED <<tx_ready, tx_waker>>
         /\ IF s \in {ROK, ROK + IsrTok}
            THEN /\ rx_ready'
                 /\ rx_waker' = NoTask
                 /\ task_queue' = NotifyWake(task_queue, rx_waker)
            ELSE UNCHANGED <<rx_ready, rx_waker, task_queue>>
         /\ s = IsrTok => UNCHANGED <<rx_ready, rx_waker, tx_ready, tx_waker, task_queue>>]_vars

\* the handler has run for Transmit OK alone while the pump task is parked
\* with its waker registered for RX: the task is still parked
C29_Witness ==
    /\ irq_last.seen
    /\ irq_last.status = IsrTok
    /\ irq_last.ack = IsrTok
    /\ rx_waker # NoTask
    /\ ~rx_ready
    /\ task_queue = <<>>

\* C30: for every interrupt line irq the PCI configuration gives the NIC,
\* the handler is installed at vector 32 + irq and signals end-of-interrupt
\* for that same vector.
C30_EoiForInstalledVector ==
    irq_last.seen /\ irq_last.vector # 0 =>
        /\ irq_last.vector = PicOffset + irq_num
        /\ irq_last.eoi = irq_last.vector

\* C31: the receiver and the transmitter are enabled only after the reset
\* bit has been seen clear, the rx buffer address and the four tx buffer
\* addresses have been programmed, the I/O base the handler uses has been
\* published and the handler has been installed; the NIC cannot raise an
\* interrupt before its handler and its buffers exist, and none is
\* delivered to a vector without a handler.
C31_EnabledAfterBringUp ==
    /\ nic_init.enabled =>
          /\ nic_init.rst_clear
          /\ ~nic_init.rst
          /\ nic_init.rbstart
          /\ nic_init.tsad = TxBuffers
          /\ nic_init.io_base
          /\ nic_init.handler
    /\ NicCanInterrupt => NicHandlerReady /\ nic_init.rbstart /\ nic_init.tsad = TxBuffers
    /\ pc # "panic"

\* the NIC is enabled, on a line other than that of vector 43, and its
\* handler has run for a received frame
C31_Witness ==
    /\ nic_init.enabled
    /\ nic_init.at = Len(InitOrder) + 1
    /\ irq_num # NicEoiVector - PicOffset
    /\ irq_last.status = ROK
    /\ rx_ready

\* C32: when scan_devices has returned, the registry holds exactly the
\* positions whose vendor ID (the low word of configuration dword 0) is not
\* 0xFFFF, in scan order, each with the vendor ID and the device ID read at
\* that position.
C32_ScanRecordsVendorPresent ==
    (pci_scan.calls >= 1 /\ pci_scan.pos = 0) =>
        PCI_DEVICES.devs =
            SelectSeq([slot \in PciSlots |->
                          [slot |-> slot,
                           id |-> ConfigDword0(pci_bus[slot]).hi,
                           vendor |-> ConfigDword0(pci_bus[slot]).lo]],
                      LAMBDA dev : dev.vendor # NoDeviceWord)

\* kernel_main with the registry scanned: dword 1 of the NIC holds any
\* command and status, in a plain or a write-one-to-clear register, and
\* enable_mastering is called under the timer interrupt.
InitMaster ==
    /\ ExecutorBoot(<<>>, 1)
    /\ Rtl8139New
    /\ MemBoot
    /\ SockBoot
    /\ WaitBoot
    /\ ShellBoot
    /\ pci_bus = [slot \in PciSlots |-> IF slot = 1 THEN "rtl8139" ELSE "none"]
    /\ PCI_DEVICES = [init |-> TRUE, devs |-> Scanned(pci_bus, MaxSlots)]
    /\ pci_scan = [pos |-> 0, calls |-> 1, reads |-> MaxSlots]
    /\ \E lo \in {0, 3, 4, 7, 259, 65531}, hi \in {0, 640, 656, 63744, 65535}, hw \in BOOLEAN :
          pci_cfg = [hi |-> hi, lo |-> lo, rw1c |-> hw, calls |-> 0,
                     read |-> [hi |-> 0, lo |-> 0], written |-> [hi |-> 0, lo |-> 0],
                     before |-> [hi |-> 0, lo |-> 0]]

NextMaster == EnableMastering \/ TimerInterrupt

SpecMaster == InitMaster /\ [][NextMaster]_vars

C34_PhysBufNewTerminates ==
    /\ phys_buf.tries <= 2 * MaxPages
    /\ phys_buf.state # "panic"
    /\ phys_buf.state = "oom" =>
          \A start \in AllocStarts(phys_buf.len) :
              ~FromAccepts(heap_map, start, phys_buf.len)

\* the pump is between two selects: the Rtl8139Recv and the WaitForTx of its
\* last select have been dropped and the next two do not exist yet
SelectDropped ==
    \E t \in tasks : IsPump(t) /\ tpc[t] \in {"pump_loop", "iface_poll"}

\* C35: a wake on the waker slot of a dropped future is a no-op.  While the
\* two futures of the pump's last select are dropped, a step of the NIC
\* handler's notify_rx or of notify_tx (a step that moves no task) pushes no
\* task ID onto the run queue.
C35_WakeAfterDropIsNoOp ==
    [][(SelectDropped /\ tpc' = tpc /\ (rx_ready' # rx_ready \/ tx_ready' # tx_ready
                                        \/ rx_waker' # rx_waker \/ tx_waker' # tx_waker))
          => task_queue' = task_queue]_vars

\* the pump beside the shell's ping, whose IcmpSocket is made and bound;
\* echo replies arrive or do not
InitPing == SocketBoot(<<"ping">>, "established", 1)

\* the steps of the executor thread in SpecPing
ThreadPing ==
    \/ Executor
    \/ PumpIteration
    \/ PumpPollInterfaces
    \/ RxPollDisable
    \/ RxPollLoad
    \/ RxPollClear
    \/ RxPollRegister
    \/ RxPollRestore
    \/ TxPollRead
    \/ TxPollClear
    \/ TxPollRegister
    \/ TxPollRecheck

NextPing ==
    \/ ThreadPing
    \/ PingSend
    \/ PingRecv
    \/ PingSleepCall
    \/ PingSleepTime
    \/ PingSleepCheck
    \/ NicInterrupt
    \/ TimerInterrupt
    \/ FrameArrives

SpecPing == InitPing /\ [][NextPing]_vars

\* C36: ping sends exactly the echo requests 0, 1, 2, 3, in that order, and
\* every wait of it is bounded by a timeout: whenever the ping task is
\* parked, a Sleep of that task is on the sleep list with its waker
\* registered, so that the task is polled again with or without a reply.
C36_PingBoundedByTimeout ==
    \A t \in TaskIds :
        kind[t] = "ping" =>
            /\ ping.sent = [i \in 1..Len(ping.sent) |-> i - 1]
            /\ Len(ping.sent) <= PingCount
            /\ tpc[t] = "done" => Len(ping.sent) = PingCount
            /\ (t \in tasks /\ cur # t /\ tpc[t] # "start") =>
                  (t \in Range(SLEEPERS) /\ sleep_waker[t])

\* C37: the first poll of yield_now() pushes the ID of its own task onto the
\* run queue and is Pending, the second poll is Ready, and a task that has
\* yielded is never parked without its ID on the run queue.
C37_YieldWakesItself ==
    [][/\ (YieldPoll /\ tpc[cur] = "start") =>
             /\ task_queue' = Append(task_queue, cur)
             /\ tpc'[cur] = "yielded"
             /\ pc' = "run_ready"
             /\ cur \in tasks'
       /\ (YieldPoll /\ tpc[cur] = "yielded") =>
             /\ tpc'[cur] = "done"
             /\ cur \notin tasks'
             /\ task_queue' = task_queue
       /\ \A t \in TaskIds :
             (kind[t] = "yield" /\ t \in tasks' /\ tpc'[t] = "yielded" /\ cur' # t) =>
                 t \in Range(task_queue')]_vars

\* forward_keys alone with the keyboard interrupt: no key stream is
\* registered
InitKbd ==
    /\ ExecutorBoot(<<"forward_keys">>, 1)
    /\ Rtl8139New
    /\ PciBoot
    /\ MemBoot
    /\ SockBoot
    /\ WaitBoot
    /\ ping = [sent |-> <<>>, replies |-> 0]
    /\ KeyboardBoot({})

\* the steps of the executor thread in SpecKbd
ThreadKbd ==
    \/ Executor
    \/ ScancodePop
    \/ ScancodeRegister
    \/ ScancodePopAgain
    \/ ForwardKey

NextKbd == ThreadKbd \/ AddScancode

SpecKbd == InitKbd /\ [][NextKbd]_vars

\* the executor at the top of its loop with every task parked: each has been
\* polled, so its waker is cached, and none is queued
ExecutorParked(ks, n, at) ==
    /\ tasks = 1..Len(ks)
    /\ task_queue = <<>>
    /\ waker_cache = 1..Len(ks)
    /\ incoming_tasks = <<>>
    /\ pc = "add_incoming"
    /\ cur = NoTask
    /\ int_enabled = TRUE
    /\ next_id = Len(ks) + 1
    /\ kind = [t \in 1..n |-> IF t <= Len(ks) THEN ks[t] ELSE "none"]
    /\ tpc = [t \in 1..n |-> IF t <= Len(ks) THEN at[t] ELSE "start"]
    /\ held = {}
    /\ CLOCK = 0
    /\ SLEEPERS = <<>>
    /\ wake_at = [t \in 1..n |-> 0]
    /\ sleep_waker = [t \in 1..n |-> FALSE]
    /\ sleep_time = [t \in 1..n |-> 0]
    /\ sleep_arg = [t \in 1..n |-> [tick |-> 0, ms |-> 0]]
    /\ tx_ready = FALSE
    /\ tx_waker = NoTask
    /\ rx_ready = FALSE
    /\ rx_waker = NoTask
    /\ saved_if = TRUE

\* the scancodes typed before the run starts, and the ones typed in a run
\* that starts at boot
TypedBefore == ScancodeCap - 3
TypedAtBoot == 4

\* the keyboard after n scancodes went through: forward_keys has yielded and
\* delivered them all and waits for the next, the reader of the first stream
\* has read every key and waits too, the second stream holds every key
KeyboardAfter(n) ==
    /\ SCANCODE_QUEUE = <<>>
    /\ kb_waker = 1
    /\ KEY_STREAMS = [id \in StreamIds |->
                        IF id = 1
                        THEN [reg |-> TRUE, queue |-> <<>>, waker |-> 2]
                        ELSE [reg |-> TRUE, queue |-> DecodedKeys(n), waker |-> NoTask]]
    /\ kb = [typed |-> n, accepted |-> n, dropped |-> 0, yielded |-> n, fifo |-> TRUE,
             local |-> n, keys |-> Len(DecodedKeys(n)), limit |-> TypedCap]

\* forward_keys beside a task that reads the first key stream, with a second
\* stream registered whose owner is not reading: at boot, or with both tasks
\* waiting after TypedBefore scancodes
InitKeys ==
    /\ Rtl8139New
    /\ PciBoot
    /\ MemBoot
    /\ SockBoot
    /\ WaitBoot
    /\ ping = [sent |-> <<>>, replies |-> 0]
    /\ \/ /\ ExecutorBoot(<<"forward_keys", "keys">>, 2)
          /\ SCANCODE_QUEUE = <<>>
          /\ kb_waker = NoTask
          /\ KEY_STREAMS = [id \in StreamIds |->
                              [reg |-> TRUE, queue |-> <<>>, waker |-> NoTask]]
          /\ kb = [typed |-> 0, accepted |-> 0, dropped |-> 0, yielded |-> 0,
                   fifo |-> TRUE, local |-> 0, keys |-> 0, limit |-> TypedAtBoot]
       \/ /\ ExecutorParked(<<"forward_keys", "keys">>, 2, <<"fk_parked", "ks_parked">>)
          /\ KeyboardAfter(TypedBefore)

NextKeys == ThreadKbd \/ KeyStreamPoll \/ AddScancode

SpecKeys == InitKeys /\ [][NextKeys]_vars

\* C38: add_scancode on a full scancode queue (100 entries) drops the
\* scancode with a warning: the queue is unchanged, no waker is fired, and
\* there is no panic.  With room, the scancode is appended and the
\* registered waker is fired: its task's ID is pushed and the slot emptied.
C38_AddScancodeDropsWhenFull ==
    [][AddScancode =>
         IF Len(SCANCODE_QUEUE) >= ScancodeCap
         THEN /\ SCANCODE_QUEUE' = SCANCODE_QUEUE
              /\ task_queue' = task_queue
              /\ kb_waker' = kb_waker
              /\ kb'.dropped = kb.dropped + 1
              /\ pc' # "panic"
         ELSE /\ SCANCODE_QUEUE' = Append(SCANCODE_QUEUE, kb'.accepted)
              /\ kb'.dropped = kb.dropped
              /\ kb_waker' = NoTask
              /\ task_queue' = IF kb_waker = NoTask THEN task_queue
                                ELSE Append(task_queue, kb_waker)]_vars

\* C38 witness: a scancode has been dropped on a full queue, after an
\* earlier one had woken forward_keys
C38_Witness ==
    /\ kb.dropped >= 1
    /\ Len(SCANCODE_QUEUE) = ScancodeCap
    /\ kb.yielded >= 1

\* C39: the scancodes accepted are yielded to forward_keys exactly once and
\* in FIFO order, whatever the interleaving of the keyboard interrupt with
\* poll_next; none is left in the queue with forward_keys parked and no wake
\* pending; and every key decoded has been delivered, in order, to every
\* registered key stream: forward_keys does not fail on the way.
C39_KeysDeliveredInOrder ==
    /\ kb.fifo
    /\ kb.yielded + Len(SCANCODE_QUEUE) = kb.accepted
    /\ \A t \in tasks :
          (kind[t] = "forward_keys" /\ tpc[t] = "fk_parked" /\ cur # t
             /\ SCANCODE_QUEUE # <<>>) => t \in Range(task_queue)
    /\ pc # "panic"
    /\ \A id \in Registered :
          \E n \in 0..kb.keys :
              KEY_STREAMS[id].queue = SubSeq(DecodedKeys(kb.yielded), n + 1, kb.keys)

====
